---- MODULE Spec2Model ----
(***************************************************************************)
(* RedProof: prover (capture -> evaluate -> commit -> artifact) and        *)
(* verifier (validate -> re-derive commitments from the witness).          *)
(*                                                                         *)
(* Byte strings are sequences of integers 0..255.  Base64 text is a        *)
(* sequence of character codes: 0..63 is the index of an alphabet          *)
(* character, Pad is '=', BadChar is a character outside the alphabet.     *)
(* Text strings (domain, ...) are sequences of one-character strings.      *)
(***************************************************************************)
EXTENDS Integers, Sequences, FiniteSets, TLC

VARIABLES
    cli,          \* prover command line: url, prove, method, hash_alg, ...
    pc,           \* prover position in main / capture
    parsed,       \* main's locals: url, statement, max_body_bytes, domain
    provider,     \* install_crypto_provider: the Once and its effect count
    net,          \* transport: attempts made, bytes on the wire, read loop
    out,          \* capture record, evaluation, commitments, artifact, file
    artifact,     \* the RedProofArtifact the verifier has loaded
    tampers,      \* number of modifications made to it since it was built
    lastTamper,   \* the last modification and the verdict before it
    vpc,          \* verifier position: "loaded" | "verified"
    validation,   \* result of artifact.validate() inside verify_artifact
    verdict,      \* result of verify_artifact
    stdout,       \* lines printed by the verifier
    callers,      \* threads calling capture(): position and calls made
    ev            \* a response, a statement and what the pure functions gave

pvars == << cli, pc, parsed, provider, net, out >>
vvars == << artifact, tampers, lastTamper, vpc, validation, verdict, stdout >>
xvars == << callers, ev >>
vars == << cli, pc, parsed, provider, net, out,
           artifact, tampers, lastTamper, vpc, validation, verdict, stdout,
           callers, ev >>

\* ------------------------------------------------------------------ bounds
MaxLen == 1
MaxTamper == 2
MaxReads == 4
MaxCallers == 3
MaxCalls == 2
MaxHeaders == 2
MaxBody == 2
MaxExpr == 5
MaxTokens == 3

\* --------------------------------------------------------------- constants
Pad == 64
BadChar == 65

ByteVals == { 0, 255 }

RECURSIVE SeqsUpTo(_, _)
SeqsUpTo(S, n) ==
    IF n = 0 THEN {<< >>}
    ELSE LET shorter == SeqsUpTo(S, n - 1)
         IN  shorter \cup {Append(s, x) : s \in {t \in shorter : Len(t) = n - 1}, x \in S}

ByteStrings == SeqsUpTo(ByteVals, MaxLen)

\* ------------------------------------------------------------------ base64
\* base64::engine::general_purpose::STANDARD.encode
RECURSIVE B64Encode(_)
B64Encode(bytes) ==
    IF Len(bytes) = 0 THEN << >>
    ELSE IF Len(bytes) = 1 THEN
        << bytes[1] \div 4, (bytes[1] % 4) * 16, Pad, Pad >>
    ELSE IF Len(bytes) = 2 THEN
        << bytes[1] \div 4,
           (bytes[1] % 4) * 16 + (bytes[2] \div 16),
           (bytes[2] % 16) * 4,
           Pad >>
    ELSE
        << bytes[1] \div 4,
           (bytes[1] % 4) * 16 + (bytes[2] \div 16),
           (bytes[2] % 16) * 4 + (bytes[3] \div 64),
           bytes[3] % 64 >>
        \o B64Encode(SubSeq(bytes, 4, Len(bytes)))

IsSym(c) == c \in 0..63

\* A complete quantum of four alphabet characters.
FullQuad(q) == IsSym(q[1]) /\ IsSym(q[2]) /\ IsSym(q[3]) /\ IsSym(q[4])

\* The last quantum: full, or canonically padded with no stray trailing bits.
LastQuadOk(q) ==
    \/ FullQuad(q)
    \/ IsSym(q[1]) /\ IsSym(q[2]) /\ IsSym(q[3]) /\ q[4] = Pad /\ q[3] % 4 = 0
    \/ IsSym(q[1]) /\ IsSym(q[2]) /\ q[3] = Pad /\ q[4] = Pad /\ q[2] % 16 = 0

\* STANDARD.decode(..).is_ok(): padding required and canonical, alphabet only.
IsBase64(text) ==
    /\ Len(text) % 4 = 0
    /\ \A k \in 0..((Len(text) \div 4) - 1) :
          LET q == SubSeq(text, 4 * k + 1, 4 * k + 4)
          IN  IF 4 * k + 4 = Len(text) THEN LastQuadOk(q) ELSE FullQuad(q)

QuadBytes(q) ==
    LET b1 == q[1] * 4 + (q[2] \div 16)
    IN  IF q[3] = Pad THEN << b1 >>
        ELSE LET b2 == (q[2] % 16) * 16 + (q[3] \div 4)
             IN  IF q[4] = Pad THEN << b1, b2 >>
                 ELSE << b1, b2, (q[3] % 4) * 64 + q[4] >>

\* STANDARD.decode on text for which IsBase64 holds.
RECURSIVE B64Decode(_)
B64Decode(text) ==
    IF Len(text) = 0 THEN << >>
    ELSE QuadBytes(SubSeq(text, 1, 4)) \o B64Decode(SubSeq(text, 5, Len(text)))

\* EncodedBlob
from_bytes(bytes) == B64Encode(bytes)

\* Results are error values: << >> is Ok(()), a non-empty tuple is Err(..).
OkResult == << >>
IsOk(r) == r = OkResult

ensure_base64(blob, field) ==
    IF IsBase64(blob) THEN OkResult ELSE << "InvalidBase64", field >>

decode(blob) ==
    IF IsBase64(blob) THEN [ok |-> TRUE, bytes |-> B64Decode(blob)]
    ELSE [ok |-> FALSE, bytes |-> << >>]

\* ------------------------------------------------------------------ digest
Algorithms == {"Blake3", "Sha256"}

AlgTag(algo) == IF algo = "Blake3" THEN 3 ELSE 2

DigestWidth == MaxLen + 5

RECURSIVE Zeros(_)
Zeros(n) == IF n <= 0 THEN << >> ELSE << 0 >> \o Zeros(n - 1)

\* blake3::hash / Sha256::digest as a collision-free fixed-width function of
\* (algorithm, data): the tag, the length and the data, zero-padded.
DigestOf(algo, data) ==
    << AlgTag(algo), Len(data) >> \o data \o Zeros(DigestWidth - 2 - Len(data))

hash_bytes(algo, data) == from_bytes(DigestOf(algo, data))

\* ---------------------------------------------------------------- artifact
\* char::is_whitespace on the characters the model uses
WS == { " ", "CR", "LF" }

\* str::trim
RECURSIVE TrimStart(_)
TrimStart(s) ==
    IF Len(s) > 0 /\ s[1] \in WS THEN TrimStart(Tail(s)) ELSE s

RECURSIVE TrimEnd(_)
TrimEnd(s) ==
    IF Len(s) > 0 /\ s[Len(s)] \in WS THEN TrimEnd(SubSeq(s, 1, Len(s) - 1)) ELSE s

Trim(s) == TrimEnd(TrimStart(s))

\* Option<T>: << >> is None, << x >> is Some(x).
None == << >>
Some(x) == << x >>
IsSome(o) == Len(o) = 1

\* TlsProofContext::validate
TlsValidate(tls) ==
    IF Len(tls.cert_fingerprints) = 0 THEN << "MissingCertFingerprint" >>
    ELSE OkResult

\* CommitmentSet::validate
CommitmentsValidate(c) ==
    LET r1 == ensure_base64(c.handshake, "handshake commitment")
        r2 == ensure_base64(c.app_data, "application-data commitment")
    IN  IF ~IsOk(r1) THEN r1
        ELSE IF ~IsOk(r2) THEN r2
        ELSE IF IsSome(c.witness) THEN
            LET w1 == ensure_base64(c.witness[1].handshake, "handshake witness")
                w2 == ensure_base64(c.witness[1].app_data, "app-data witness")
            IN  IF ~IsOk(w1) THEN w1
                ELSE IF ~IsOk(w2) THEN w2
                ELSE OkResult
        ELSE OkResult

\* (variant: the proof blob is not checked)
validate_no_proof(a) ==
    IF Len(Trim(a.domain)) = 0 THEN << "MissingDomain" >>
    ELSE IF ~IsOk(TlsValidate(a.tls)) THEN TlsValidate(a.tls)
    ELSE CommitmentsValidate(a.commitments)

\* RedProofArtifact::validate
validate(a) ==
    IF Len(Trim(a.domain)) = 0 THEN << "MissingDomain" >>
    ELSE IF ~IsOk(TlsValidate(a.tls)) THEN TlsValidate(a.tls)
    ELSE IF ~IsOk(CommitmentsValidate(a.commitments)) THEN CommitmentsValidate(a.commitments)
    ELSE ensure_base64(a.proof, "proof")

\* ------------------------------------------------------------- commitments
\* commit.rs build_commitments
build_commitments(transcript, algorithm, include_witness) ==
    [ algorithm |-> algorithm,
      handshake |-> hash_bytes(algorithm, transcript.handshake),
      app_data  |-> hash_bytes(algorithm, transcript.app_data),
      witness   |-> IF include_witness
                    THEN Some([ handshake |-> from_bytes(transcript.handshake),
                                app_data  |-> from_bytes(transcript.app_data) ])
                    ELSE None ]

\* ---------------------------------------------------------------- verifier
\* verifier ensure_digest: string comparison of the re-derived blob with the
\* stored one.
\* (variant: the verifier hashes with Sha256 whatever the declared algorithm)
verifier_hash_bytes_sha_only(algo, data) == from_bytes(DigestOf("Sha256", data))

\* verifier hash_bytes
verifier_hash_bytes(algo, data) == from_bytes(DigestOf(algo, data))

\* (variant: only the first two characters of the digests are compared)
ensure_digest_prefix(algorithm, data, expected, label) ==
    IF SubSeq(verifier_hash_bytes(algorithm, data), 1, 2) # SubSeq(expected, 1, 2)
    THEN << "DigestMismatch", label >>
    ELSE OkResult

\* verifier ensure_digest: string comparison of the re-derived blob with the
\* stored one.
ensure_digest(algorithm, data, expected, label) ==
    IF verifier_hash_bytes(algorithm, data) # expected
    THEN << "DigestMismatch", label >>
    ELSE OkResult

SkipWarning == "warning: no witness included; commitment verification skipped"

\* (variant: the app-data digest is checked before the handshake digest)
check_commitments_app_data_first(c) ==
    IF IsSome(c.witness) THEN
        LET handshake == decode(c.witness[1].handshake)
            app_data  == decode(c.witness[1].app_data)
        IN  IF ~handshake.ok \/ ~app_data.ok
            THEN [ result |-> << "InvalidBase64", "encoded blob" >>, printed |-> << >> ]
            ELSE LET d1 == ensure_digest(c.algorithm, handshake.bytes, c.handshake, "handshake")
                     d2 == ensure_digest(c.algorithm, app_data.bytes, c.app_data, "app-data")
                 IN  IF ~IsOk(d2) THEN [ result |-> d2, printed |-> << >> ]
                     ELSE [ result |-> d1, printed |-> << >> ]
    ELSE [ result |-> OkResult, printed |-> << SkipWarning >> ]

\* (variant: an artifact without a witness is rejected, silently)
check_commitments_requires_witness(c) ==
    IF IsSome(c.witness) THEN
        LET handshake == decode(c.witness[1].handshake)
            app_data  == decode(c.witness[1].app_data)
        IN  IF ~handshake.ok \/ ~app_data.ok
            THEN [ result |-> << "InvalidBase64", "encoded blob" >>, printed |-> << >> ]
            ELSE LET d1 == ensure_digest(c.algorithm, handshake.bytes, c.handshake, "handshake")
                     d2 == ensure_digest(c.algorithm, app_data.bytes, c.app_data, "app-data")
                 IN  IF ~IsOk(d1) THEN [ result |-> d1, printed |-> << >> ]
                     ELSE [ result |-> d2, printed |-> << >> ]
    ELSE [ result |-> << "MissingWitness" >>, printed |-> << >> ]

\* verify_artifact after validate(): decode the witness and compare both
\* digests, handshake first; without a witness, warn and succeed.
check_commitments(c) ==
    IF IsSome(c.witness) THEN
        LET handshake == decode(c.witness[1].handshake)
            app_data  == decode(c.witness[1].app_data)
        IN  IF ~handshake.ok \/ ~app_data.ok
            THEN [ result |-> << "InvalidBase64", "encoded blob" >>, printed |-> << >> ]
            ELSE LET d1 == ensure_digest(c.algorithm, handshake.bytes, c.handshake, "handshake")
                     d2 == ensure_digest(c.algorithm, app_data.bytes, c.app_data, "app-data")
                 IN  IF ~IsOk(d1) THEN [ result |-> d1, printed |-> << >> ]
                     ELSE [ result |-> d2, printed |-> << >> ]
    ELSE [ result |-> OkResult, printed |-> << SkipWarning >> ]

\* (variant: the digests are compared before the structural validation)
verify_artifact_digests_first(a) ==
    LET v == validate(a)
        r == check_commitments(a.commitments)
    IN  IF ~IsOk(r.result)
        THEN [ result |-> r.result, printed |-> r.printed, validation |-> v ]
        ELSE [ result |-> v, printed |-> r.printed, validation |-> v ]

\* (variant: a header:present statement is looked up in the disclosed
\* transcript, which names no header, and fails the verification)
verify_artifact_checks_statement(a) ==
    LET v == validate(a)
    IN  IF ~IsOk(v) THEN [ result |-> v, printed |-> << >>, validation |-> v ]
        ELSE IF a.statement.type = "header:present"
        THEN [ result |-> << "StatementNotSatisfied" >>, printed |-> << >>, validation |-> v ]
        ELSE LET r == check_commitments(a.commitments)
             IN  [ result |-> r.result, printed |-> r.printed, validation |-> v ]

\* (variant: the artifact must be for the domain the verifier expects)
verify_artifact_binds_domain(a) ==
    LET v == validate(a)
    IN  IF ~IsOk(v) THEN [ result |-> v, printed |-> << >>, validation |-> v ]
        ELSE IF a.domain # << "a" >>
        THEN [ result |-> << "DomainMismatch" >>, printed |-> << >>, validation |-> v ]
        ELSE LET r == check_commitments(a.commitments)
             IN  [ result |-> r.result, printed |-> r.printed, validation |-> v ]

\* verifier verify_artifact: the result, the lines it prints, and the result
\* of the validate() call it starts with.
verify_artifact(a) ==
    LET v == validate(a)
    IN  IF ~IsOk(v) THEN [ result |-> v, printed |-> << >>, validation |-> v ]
        ELSE LET r == check_commitments(a.commitments)
             IN  [ result |-> r.result, printed |-> r.printed, validation |-> v ]

\* ------------------------------------------------------ statement language
\* A statement expression is a sequence of characters.  A character is one of
\* the specials ":", "\"", "\\", " ", or an atom standing for a run of ordinary
\* characters (a word such as "header" or "Server").
LowerTable ==
    [ Header |-> "header", HEADER |-> "header", Present |-> "present",
      Absent |-> "absent", Eq |-> "eq", EQ |-> "eq", Hash |-> "hash",
      Regex |-> "regex", Server |-> "server", Apache |-> "apache",
      SHA256 |-> "sha256", Blake3 |-> "blake3", Body |-> "body",
      Headers |-> "headers", Any |-> "any", True |-> "true", False |-> "false",
      Yes |-> "yes", No |-> "no", Example |-> "example", Strict |-> "strict",
      One |-> "one", Two |-> "two", Hello |-> "hello", X_Test |-> "x_test",
      Accept |-> "accept", H |-> "h", I |-> "i" ]

\* char::to_ascii_lowercase on an atom
LowerAtom(c) == IF c \in DOMAIN LowerTable THEN LowerTable[c] ELSE c

\* str::to_ascii_lowercase
Lower(s) == [ i \in 1..Len(s) |-> LowerAtom(s[i]) ]

Err(e) == [ ok |-> FALSE, val |-> << >>, err |-> e ]
Ok(v) == [ ok |-> TRUE, val |-> << v >>, err |-> << >> ]

\* (variant: the scan splits at every colon, quoted or not)
RECURSIVE TokenScan_splits_in_quotes(_, _, _, _, _)
TokenScan_splits_in_quotes(rest, fields, buf, in_quotes, escaping) ==
    IF Len(rest) = 0 THEN
        [ fields |-> fields, buf |-> buf, in_quotes |-> in_quotes, escaping |-> escaping ]
    ELSE
        LET ch == Head(rest)
        IN  IF escaping THEN
                TokenScan_splits_in_quotes(Tail(rest), fields, Append(buf, ch), in_quotes, FALSE)
            ELSE IF ch = "\\" /\ in_quotes THEN
                TokenScan_splits_in_quotes(Tail(rest), fields, buf, in_quotes, TRUE)
            ELSE IF ch = "\"" THEN
                TokenScan_splits_in_quotes(Tail(rest), fields, buf, ~in_quotes, FALSE)
            ELSE IF ch = ":" THEN
                TokenScan_splits_in_quotes(Tail(rest), Append(fields, Trim(buf)), << >>,
                                           in_quotes, FALSE)
            ELSE
                TokenScan_splits_in_quotes(Tail(rest), fields, Append(buf, ch), in_quotes, FALSE)

\* parser.rs tokenize: the scan over the trimmed input, one character a step.
RECURSIVE TokenScan(_, _, _, _, _)
TokenScan(rest, fields, buf, in_quotes, escaping) ==
    IF Len(rest) = 0 THEN
        [ fields |-> fields, buf |-> buf, in_quotes |-> in_quotes, escaping |-> escaping ]
    ELSE
        LET ch == Head(rest)
        IN  IF escaping THEN
                TokenScan(Tail(rest), fields, Append(buf, ch), in_quotes, FALSE)
            ELSE IF ch = "\\" /\ in_quotes THEN
                TokenScan(Tail(rest), fields, buf, in_quotes, TRUE)
            ELSE IF ch = "\"" THEN
                TokenScan(Tail(rest), fields, buf, ~in_quotes, FALSE)
            ELSE IF ch = ":" /\ ~in_quotes THEN
                TokenScan(Tail(rest), Append(fields, Trim(buf)), << >>, in_quotes, FALSE)
            ELSE
                TokenScan(Tail(rest), fields, Append(buf, ch), in_quotes, FALSE)

\* (variant: the pending escape is reported before the open quote)
tokenize_escape_first(input) ==
    LET trimmed == Trim(input)
    IN  IF Len(trimmed) = 0 THEN Ok(<< >>)
        ELSE LET sc == TokenScan(trimmed, << >>, << >>, FALSE, FALSE)
                 fields == Append(sc.fields, Trim(sc.buf))
             IN  IF sc.escaping THEN Err(<< "DanglingEscape" >>)
                 ELSE IF sc.in_quotes THEN Err(<< "UnbalancedQuotes" >>)
                 ELSE IF \E i \in 1..Len(fields) : Len(fields[i]) = 0
                      THEN Err(<< "EmptyToken" >>)
                 ELSE Ok(fields)

\* parser.rs tokenize
tokenize(input) ==
    LET trimmed == Trim(input)
    IN  IF Len(trimmed) = 0 THEN Ok(<< >>)
        ELSE LET sc == TokenScan(trimmed, << >>, << >>, FALSE, FALSE)
                 fields == Append(sc.fields, Trim(sc.buf))
             IN  IF sc.in_quotes THEN Err(<< "UnbalancedQuotes" >>)
                 ELSE IF sc.escaping THEN Err(<< "DanglingEscape" >>)
                 ELSE IF \E i \in 1..Len(fields) : Len(fields[i]) = 0
                      THEN Err(<< "EmptyToken" >>)
                 ELSE Ok(fields)

\* parser.rs require_value
require_value(value, label) ==
    IF Len(Trim(value)) = 0 THEN Err(<< "MissingValue", label >>) ELSE Ok(value)

\* parser.rs parse_header
parse_header(parts) ==
    IF Len(parts) = 0 THEN Err(<< "MissingValue", "header action" >>)
    ELSE LET action == Lower(parts[1])
         IN  IF action = << "present" >> THEN
                 IF Len(parts) # 2 THEN Err(<< "ExpectedFormat", "header:present" >>)
                 ELSE LET t == require_value(parts[2], "header name")
                      IN  IF ~t.ok THEN t
                          ELSE Ok([ type |-> "header:present", target |-> t.val[1] ])
             ELSE IF action = << "absent" >> THEN
                 IF Len(parts) # 2 THEN Err(<< "ExpectedFormat", "header:absent" >>)
                 ELSE LET t == require_value(parts[2], "header name")
                      IN  IF ~t.ok THEN t
                          ELSE Ok([ type |-> "header:absent", target |-> t.val[1] ])
             ELSE IF action = << "eq" >> THEN
                 IF Len(parts) # 3 THEN Err(<< "ExpectedFormat", "header:eq" >>)
                 ELSE LET t == require_value(parts[2], "header name")
                          e == require_value(parts[3], "expected header value")
                      IN  IF ~t.ok THEN t
                          ELSE IF ~e.ok THEN e
                          ELSE Ok([ type |-> "header:eq", target |-> t.val[1],
                                    expected |-> e.val[1], case_sensitive |-> None ])
             ELSE Err(<< "UnknownHeaderAction" >>)

\* parser.rs HashAlgorithm::from_str
HashAlgorithmFromStr(s) ==
    IF Lower(s) = << "sha256" >> THEN Ok("Sha256")
    ELSE IF Lower(s) = << "blake3" >> THEN Ok("Blake3")
    ELSE Err(<< >>)

\* parser.rs parse_hash
parse_hash(parts) ==
    IF Len(parts) # 3 THEN Err(<< "ExpectedFormat", "hash:eq" >>)
    ELSE IF Lower(parts[1]) # << "eq" >> THEN Err(<< "UnsupportedHashOperation" >>)
    ELSE LET a == HashAlgorithmFromStr(parts[2])
             d == require_value(parts[3], "digest")
         IN  IF ~a.ok THEN Err(<< "UnsupportedHashAlgorithm" >>)
             ELSE IF ~d.ok THEN d
             ELSE Ok([ type |-> "hash:eq", algorithm |-> a.val[1], digest |-> d.val[1] ])

\* parser.rs parse_scope
parse_scope(value) ==
    IF Lower(value) = << "headers" >> THEN Ok("Headers")
    ELSE IF Lower(value) = << "body" >> THEN Ok("Body")
    ELSE IF Lower(value) = << "any" >> THEN Ok("Any")
    ELSE Err(<< "InvalidScope" >>)

\* parser.rs parse_bool
parse_bool(value) ==
    IF Lower(value) \in { << "true" >>, << "1" >>, << "yes" >> } THEN Ok(TRUE)
    ELSE IF Lower(value) \in { << "false" >>, << "0" >>, << "no" >> } THEN Ok(FALSE)
    ELSE Err(<< "InvalidBoolean" >>)

\* (variant: a bare scope name is not taken as a modifier)
matches_scope_name_never(token) == FALSE

\* parser.rs matches_scope_name
matches_scope_name(token) ==
    Lower(token) \in { << "headers" >>, << "body" >>, << "any" >> }

HasPrefix(token, prefix) == Len(token) > 0 /\ token[1] = prefix

\* parser.rs parse_regex: the modifier loop from index idx (1-based).
RECURSIVE RegexModifiers(_, _, _, _)
RegexModifiers(parts, idx, scope, case_sensitive) ==
    IF idx < Len(parts) THEN
        LET token == parts[idx]
        IN  IF HasPrefix(token, "scope=") THEN
                LET sc == parse_scope(Tail(token))
                IN  IF ~sc.ok THEN sc
                    ELSE RegexModifiers(parts, idx + 1, sc.val[1], case_sensitive)
            ELSE IF HasPrefix(token, "case_sensitive=") THEN
                LET b == parse_bool(Tail(token))
                IN  IF ~b.ok THEN b
                    ELSE RegexModifiers(parts, idx + 1, scope, b.val[1])
            ELSE IF matches_scope_name(token) THEN
                RegexModifiers(parts, idx + 1, parse_scope(token).val[1], case_sensitive)
            ELSE Ok([ idx |-> idx, scope |-> scope, case_sensitive |-> case_sensitive ])
    ELSE Ok([ idx |-> idx, scope |-> scope, case_sensitive |-> case_sensitive ])

\* parser.rs parse_regex
parse_regex(parts) ==
    IF Len(parts) = 0 THEN Err(<< "MissingValue", "regex pattern" >>)
    ELSE LET m == RegexModifiers(parts, 1, "Any", FALSE)
         IN  IF ~m.ok THEN m
             ELSE IF Len(parts[m.val[1].idx]) = 0
                  THEN Err(<< "MissingValue", "regex pattern" >>)
             ELSE IF m.val[1].idx # Len(parts) THEN Err(<< "UnexpectedSegments" >>)
             ELSE Ok([ type |-> "regex", pattern |-> parts[m.val[1].idx],
                       scope |-> m.val[1].scope,
                       case_sensitive |-> m.val[1].case_sensitive ])

\* parser.rs parse_statement
parse_statement(input) ==
    LET t == tokenize(input)
    IN  IF ~t.ok THEN t
        ELSE IF Len(t.val[1]) = 0 THEN Err(<< "EmptyExpression" >>)
        ELSE LET kind == Lower(t.val[1][1])
                 parts == Tail(t.val[1])
             IN  IF kind = << "header" >> THEN parse_header(parts)
                 ELSE IF kind = << "hash" >> THEN parse_hash(parts)
                 ELSE IF kind = << "regex" >> THEN parse_regex(parts)
                 ELSE Err(<< "UnknownKind" >>)

\* ------------------------------------------------------------ HTTP response
\* The wire bytes are a sequence of characters: the specials "CR", "LF", " ",
\* ":", atoms standing for runs of ordinary header characters, and single body
\* bytes.

\* capture.rs find_header_split: offset (0-based) of the first CR LF CR LF.
IsSplitAt(raw, i) ==
    /\ i + 4 <= Len(raw)
    /\ raw[i + 1] = "CR" /\ raw[i + 2] = "LF" /\ raw[i + 3] = "CR" /\ raw[i + 4] = "LF"

find_header_split(raw) ==
    IF \E i \in 0..Len(raw) : IsSplitAt(raw, i)
    THEN Some(CHOOSE i \in 0..Len(raw) :
                 IsSplitAt(raw, i) /\ \A j \in 0..(i - 1) : ~IsSplitAt(raw, j))
    ELSE None

\* str::split("\r\n")
RECURSIVE SplitCRLF(_, _)
SplitCRLF(text, cur) ==
    IF Len(text) = 0 THEN << cur >>
    ELSE IF Len(text) >= 2 /\ text[1] = "CR" /\ text[2] = "LF"
         THEN << cur >> \o SplitCRLF(SubSeq(text, 3, Len(text)), << >>)
    ELSE SplitCRLF(Tail(text), Append(cur, text[1]))

\* Index of the first occurrence of character c in s, 0 if none.
IndexOf(s, c) ==
    IF \E i \in 1..Len(s) : s[i] = c
    THEN CHOOSE i \in 1..Len(s) : s[i] = c /\ \A j \in 1..(i - 1) : s[j] # c
    ELSE 0

\* str::parse::<u16> on the atoms the model uses.
StatusCodes == [ c200 |-> 200, c301 |-> 301, c404 |-> 404 ]

ParseU16(part) ==
    IF Len(part) = 1 /\ part[1] \in DOMAIN StatusCodes
    THEN Ok(StatusCodes[part[1]])
    ELSE Err(<< "invalid status code" >>)

\* capture.rs parse_status_line: splitn(3, ' ')
parse_status_line(line) ==
    LET i1 == IndexOf(line, " ")
    IN  IF i1 = 0 THEN Err(<< "missing status code" >>)
        ELSE LET version == SubSeq(line, 1, i1 - 1)
                 rest    == SubSeq(line, i1 + 1, Len(line))
                 i2      == IndexOf(rest, " ")
                 codeTxt == IF i2 = 0 THEN rest ELSE SubSeq(rest, 1, i2 - 1)
                 reason  == IF i2 = 0 THEN << >> ELSE SubSeq(rest, i2 + 1, Len(rest))
                 code    == ParseU16(codeTxt)
             IN  IF ~code.ok THEN code
                 ELSE Ok([ http_version |-> version, status_code |-> code.val[1],
                           reason |-> reason ])

\* The header loop of parse_http_response: one HeaderEntry per line that has
\* a colon; blank lines and lines without a colon are skipped.
RECURSIVE HeaderEntries(_)
HeaderEntries(lines) ==
    IF Len(lines) = 0 THEN << >>
    ELSE LET line == Head(lines)
             k    == IndexOf(line, ":")
         IN  IF Len(Trim(line)) = 0 \/ k = 0 THEN HeaderEntries(Tail(lines))
             ELSE << [ name  |-> Lower(Trim(SubSeq(line, 1, k - 1))),
                       value |-> Trim(SubSeq(line, k + 1, Len(line))) ] >>
                  \o HeaderEntries(Tail(lines))

\* String::cmp on header names: lexicographic over the characters' ranks.
AtomRank ==
    [ accept |-> 1, server |-> 2, x_test |-> 3 ]

RankOf(c) == IF c \in DOMAIN AtomRank THEN AtomRank[c] ELSE 0

RECURSIVE StrLess(_, _)
StrLess(a, b) ==
    IF Len(b) = 0 THEN FALSE
    ELSE IF Len(a) = 0 THEN TRUE
    ELSE IF RankOf(a[1]) # RankOf(b[1]) THEN RankOf(a[1]) < RankOf(b[1])
    ELSE StrLess(Tail(a), Tail(b))

\* (variant: an entry goes before the entries of the same name)
RECURSIVE InsertByName_unstable(_, _)
InsertByName_unstable(sorted, e) ==
    IF Len(sorted) = 0 THEN << e >>
    ELSE IF ~StrLess(sorted[1].name, e.name) THEN << e >> \o sorted
    ELSE << sorted[1] >> \o InsertByName_unstable(Tail(sorted), e)

\* Vec::sort_by(|a, b| a.name.cmp(&b.name)): a stable sort.
RECURSIVE InsertByName(_, _)
InsertByName(sorted, e) ==
    IF Len(sorted) = 0 THEN << e >>
    ELSE IF StrLess(e.name, sorted[1].name) THEN << e >> \o sorted
    ELSE << sorted[1] >> \o InsertByName(Tail(sorted), e)

RECURSIVE SortByName(_)
SortByName(entries) ==
    IF Len(entries) = 0 THEN << >>
    ELSE InsertByName(SortByName(SubSeq(entries, 1, Len(entries) - 1)),
                      entries[Len(entries)])

\* HeaderMap (BTreeMap<String, Vec<String>>) filled from the sorted entries.
HeaderMapOf(entries) ==
    [ n \in { entries[i].name : i \in 1..Len(entries) } |->
        LET idx == { i \in 1..Len(entries) : entries[i].name = n }
            F[k \in 0..Len(entries)] ==
                IF k = 0 THEN << >>
                ELSE IF k \in idx THEN Append(F[k - 1], entries[k].value)
                ELSE F[k - 1]
        IN  F[Len(entries)] ]

\* capture.rs parse_http_response
parse_http_response(raw, max_body_bytes) ==
    LET split == find_header_split(raw)
    IN  IF ~IsSome(split) THEN Err(<< "malformed HTTP response" >>)
        ELSE
          LET header_bytes == SubSeq(raw, 1, split[1])
              body         == SubSeq(raw, split[1] + 5, Len(raw))
              lines        == SplitCRLF(header_bytes, << >>)
              status       == parse_status_line(lines[1])
          IN  IF ~status.ok THEN status
              ELSE
                LET header_entries == SortByName(HeaderEntries(Tail(lines)))
                    truncated      == Len(body) > max_body_bytes
                    body_vec       == IF truncated THEN SubSeq(body, 1, max_body_bytes)
                                      ELSE body
                IN  Ok([ response |->
                           [ http_version   |-> status.val[1].http_version,
                             status_code    |-> status.val[1].status_code,
                             reason         |-> status.val[1].reason,
                             headers        |-> header_entries,
                             body           |-> body_vec,
                             body_truncated |-> truncated ],
                         headers    |-> header_entries,
                         header_map |-> HeaderMapOf(header_entries) ])

\* ------------------------------------------------------- canonical bytes
\* serde_json::to_vec is modelled as a deterministic, field-ordered, injective
\* encoding into bytes: strings are quoted runs of character codes, lists are
\* bracketed and comma-separated.
CodeTable ==
    [ a |-> 97, h |-> 104, i |-> 105, OK |-> 79, Example |-> 69, One |-> 49,
      Two |-> 50, server |-> 115, x_test |-> 120, accept |-> 99, apache |-> 112,
      Apache |-> 80, Moved |-> 77 ]

\* A TLS label (protocol version, cipher suite, fingerprint part) as a byte.
LabelTable ==
    [ TLS13 |-> 3, TLS12 |-> 2, UNKNOWN |-> 0, TLS13_AES_128_GCM_SHA256 |-> 1,
      TLS_ECDHE_RSA_WITH_AES_128_GCM_SHA256 |-> 4, c1 |-> 5, c2 |-> 6,
      sha256 |-> 7, domain_only |-> 8 ]

CodeOf(c) ==
    IF c \in DOMAIN CodeTable THEN CodeTable[c]
    ELSE IF c \in DOMAIN LabelTable THEN LabelTable[c]
    ELSE IF c = " " THEN 32
    ELSE IF c = ":" THEN 58
    ELSE IF c = "CR" THEN 13
    ELSE IF c = "LF" THEN 10
    ELSE 63

Codes(s) == [ k \in 1..Len(s) |-> CodeOf(s[k]) ]

JsonStr(s) == << 34 >> \o Codes(s) \o << 34 >>
JsonBool(b) == IF b THEN << 116 >> ELSE << 102 >>
JsonU16(n) == << n \div 256, n % 256 >>
JsonOptStr(o) == IF IsSome(o) THEN JsonStr(o[1]) ELSE << 110 >>

RECURSIVE JsonList(_)
JsonList(items) ==
    IF Len(items) = 0 THEN << >>
    ELSE IF Len(items) = 1 THEN items[1]
    ELSE items[1] \o << 44 >> \o JsonList(Tail(items))

JsonArray(items) == << 91 >> \o JsonList(items) \o << 93 >>
JsonObject(fields) == << 123 >> \o JsonList(fields) \o << 125 >>

\* capture.rs canonicalize_handshake
canonicalize_handshake(tls, domain) ==
    JsonObject(<< JsonStr(domain),
                  JsonStr(<< tls.version >>),
                  JsonStr(<< tls.cipher >>),
                  JsonOptStr(tls.alpn),
                  JsonArray([ k \in 1..Len(tls.cert_fingerprints) |->
                                JsonStr(tls.cert_fingerprints[k]) ]) >>)

\* base64 text as JSON string bytes.
B64Text(blob) == << 34 >> \o [ k \in 1..Len(blob) |-> 128 + blob[k] ] \o << 34 >>

\* capture.rs canonicalize_app_data
canonicalize_app_data(response, headers) ==
    JsonObject(<< JsonU16(response.status_code),
                  JsonStr(response.reason),
                  JsonArray([ k \in 1..Len(headers) |->
                                JsonObject(<< JsonStr(headers[k].name),
                                              JsonStr(headers[k].value) >>) ]),
                  B64Text(B64Encode(Codes(response.body))),
                  JsonBool(response.body_truncated) >>)

\* (variant: no marker is substituted when no certificates are exposed)
extract_tls_metadata_no_marker(conn, domain) ==
    [ version |-> IF IsSome(conn.protocol_version) THEN conn.protocol_version[1]
                  ELSE "UNKNOWN",
      cipher  |-> IF IsSome(conn.negotiated_cipher_suite)
                  THEN conn.negotiated_cipher_suite[1] ELSE "UNKNOWN",
      alpn    |-> conn.alpn_protocol,
      cert_fingerprints |->
          IF IsSome(conn.peer_certificates)
          THEN [ k \in 1..Len(conn.peer_certificates[1]) |->
                   << "sha256", conn.peer_certificates[1][k] >> ]
          ELSE << >> ]

\* capture.rs extract_tls_metadata: conn is what the TLS layer exposes.
extract_tls_metadata(conn, domain) ==
    [ version |-> IF IsSome(conn.protocol_version) THEN conn.protocol_version[1]
                  ELSE "UNKNOWN",
      cipher  |-> IF IsSome(conn.negotiated_cipher_suite)
                  THEN conn.negotiated_cipher_suite[1] ELSE "UNKNOWN",
      alpn    |-> conn.alpn_protocol,
      cert_fingerprints |->
          IF IsSome(conn.peer_certificates)
          THEN [ k \in 1..Len(conn.peer_certificates[1]) |->
                   << "sha256", conn.peer_certificates[1][k] >> ]
          ELSE << << "domain_only" >> \o domain >> ]

\* ---------------------------------------------------------------- evaluator
eq_ignore_ascii_case(x, y) == Lower(x) = Lower(y)

\* (variant: the comparison is always exact)
compare_value_exact(actual, expected, case_sensitive) ==
    Trim(actual) = Trim(expected)

\* evaluate.rs compare_value
compare_value(actual, expected, case_sensitive) ==
    IF IsSome(case_sensitive) /\ case_sensitive[1]
    THEN Trim(actual) = Trim(expected)
    ELSE eq_ignore_ascii_case(Trim(actual), Trim(expected))

HexDigits == << "0", "1", "2", "3", "4", "5", "6", "7",
                "8", "9", "a", "b", "c", "d", "e", "f" >>

\* evaluate.rs hex_string
RECURSIVE hex_string(_)
hex_string(bytes) ==
    IF Len(bytes) = 0 THEN << >>
    ELSE << HexDigits[(bytes[1] \div 16) + 1], HexDigits[(bytes[1] % 16) + 1] >>
         \o hex_string(Tail(bytes))

\* evaluate.rs compute_hash
compute_hash(algo, data) == hex_string(DigestOf(algo, data))

\* evaluate.rs headers_as_text
RECURSIVE headers_as_text(_)
headers_as_text(headers) ==
    IF Len(headers) = 0 THEN << >>
    ELSE LET line == headers[1].name \o << ":", " " >> \o headers[1].value
         IN  IF Len(headers) = 1 THEN line
             ELSE line \o << "LF" >> \o headers_as_text(Tail(headers))

\* evaluate.rs body_as_text
body_as_text(body) == body

\* evaluate.rs regex_scope_text
regex_scope_text(scope, response) ==
    IF scope = "Headers" THEN headers_as_text(response.headers)
    ELSE IF scope = "Body" THEN body_as_text(response.body)
    ELSE headers_as_text(response.headers) \o << "LF", "LF" >> \o body_as_text(response.body)

\* regex: the model's patterns are literals; a pattern holding an unclosed
\* group "(" does not compile.
RegexCompiles(pattern) == \A k \in 1..Len(pattern) : pattern[k] # "("

Contains(hay, needle) ==
    \E k \in 0..(Len(hay) - Len(needle)) : SubSeq(hay, k + 1, k + Len(needle)) = needle

is_match(pattern, case_sensitive, haystack) ==
    IF case_sensitive THEN Contains(haystack, pattern)
    ELSE Contains(Lower(haystack), Lower(pattern))

\* (variant: hash:eq ignores the truncation flag)
evaluate_hashes_prefix(statement, record) ==
    IF statement.type = "header:present" THEN
        [ satisfied |-> Lower(statement.target) \in DOMAIN record.headers, details |-> None ]
    ELSE IF statement.type = "header:absent" THEN
        [ satisfied |-> Lower(statement.target) \notin DOMAIN record.headers, details |-> None ]
    ELSE IF statement.type = "header:eq" THEN
        LET key == Lower(statement.target)
        IN  [ satisfied |->
                /\ key \in DOMAIN record.headers
                /\ \E k \in 1..Len(record.headers[key]) :
                      compare_value(record.headers[key][k], statement.expected,
                                    statement.case_sensitive),
              details |-> None ]
    ELSE IF statement.type = "hash:eq" THEN
        IF FALSE THEN
            [ satisfied |-> FALSE, details |-> Some("response body truncated; hash unverifiable") ]
        ELSE
            [ satisfied |-> eq_ignore_ascii_case(
                                compute_hash(statement.algorithm, Codes(record.response.body)),
                                statement.digest),
              details |-> Some("calculated") ]
    ELSE IF statement.type = "regex" THEN
        IF RegexCompiles(statement.pattern) THEN
            [ satisfied |-> is_match(statement.pattern, statement.case_sensitive,
                                     regex_scope_text(statement.scope, record.response)),
              details |-> None ]
        ELSE [ satisfied |-> FALSE, details |-> Some("invalid regex") ]
    ELSE [ satisfied |-> FALSE, details |-> Some("statement variant not yet supported") ]

\* (variant: the header name is looked up as written)
evaluate_exact_name(statement, record) ==
    IF statement.type = "header:present" THEN
        [ satisfied |-> statement.target \in DOMAIN record.headers, details |-> None ]
    ELSE IF statement.type = "header:absent" THEN
        [ satisfied |-> statement.target \notin DOMAIN record.headers, details |-> None ]
    ELSE IF statement.type = "header:eq" THEN
        LET key == statement.target
        IN  [ satisfied |->
                /\ key \in DOMAIN record.headers
                /\ \E k \in 1..Len(record.headers[key]) :
                      compare_value(record.headers[key][k], statement.expected,
                                    statement.case_sensitive),
              details |-> None ]
    ELSE IF statement.type = "hash:eq" THEN
        IF record.response.body_truncated THEN
            [ satisfied |-> FALSE, details |-> Some("response body truncated; hash unverifiable") ]
        ELSE
            [ satisfied |-> eq_ignore_ascii_case(
                                compute_hash(statement.algorithm, Codes(record.response.body)),
                                statement.digest),
              details |-> Some("calculated") ]
    ELSE IF statement.type = "regex" THEN
        IF RegexCompiles(statement.pattern) THEN
            [ satisfied |-> is_match(statement.pattern, statement.case_sensitive,
                                     regex_scope_text(statement.scope, record.response)),
              details |-> None ]
        ELSE [ satisfied |-> FALSE, details |-> Some("invalid regex") ]
    ELSE [ satisfied |-> FALSE, details |-> Some("statement variant not yet supported") ]

\* evaluate.rs evaluate
evaluate(statement, record) ==
    IF statement.type = "header:present" THEN
        [ satisfied |-> Lower(statement.target) \in DOMAIN record.headers, details |-> None ]
    ELSE IF statement.type = "header:absent" THEN
        [ satisfied |-> Lower(statement.target) \notin DOMAIN record.headers, details |-> None ]
    ELSE IF statement.type = "header:eq" THEN
        LET key == Lower(statement.target)
        IN  [ satisfied |->
                /\ key \in DOMAIN record.headers
                /\ \E k \in 1..Len(record.headers[key]) :
                      compare_value(record.headers[key][k], statement.expected,
                                    statement.case_sensitive),
              details |-> None ]
    ELSE IF statement.type = "hash:eq" THEN
        IF record.response.body_truncated THEN
            [ satisfied |-> FALSE, details |-> Some("response body truncated; hash unverifiable") ]
        ELSE
            [ satisfied |-> eq_ignore_ascii_case(
                                compute_hash(statement.algorithm, Codes(record.response.body)),
                                statement.digest),
              details |-> Some("calculated") ]
    ELSE IF statement.type = "regex" THEN
        IF RegexCompiles(statement.pattern) THEN
            [ satisfied |-> is_match(statement.pattern, statement.case_sensitive,
                                     regex_scope_text(statement.scope, record.response)),
              details |-> None ]
        ELSE [ satisfied |-> FALSE, details |-> Some("invalid regex") ]
    ELSE [ satisfied |-> FALSE, details |-> Some("statement variant not yet supported") ]

\* ------------------------------------------------------------ prover output
ProofPlaceholder ==
    << 112, 104, 97, 115, 101, 50, 45, 110, 97, 105, 118, 101, 45, 112, 114, 111, 111, 102 >>

\* prover build_artifact
build_artifact(capture, statement, commitments) ==
    [ version     |-> "1.0",
      domain      |-> capture.domain,
      time_utc    |-> capture.captured_at,
      tls         |-> [ version           |-> capture.tls.version,
                        cipher            |-> capture.tls.cipher,
                        cert_fingerprints |-> capture.tls.cert_fingerprints,
                        alpn              |-> capture.tls.alpn ],
      statement   |-> statement,
      commitments |-> commitments,
      proof       |-> from_bytes(ProofPlaceholder),
      meta        |-> [ tool_version |-> "0.1.0",
                        annotations  |-> [ request_method |-> capture.method,
                                           status_code    |-> capture.response.status_code,
                                           body_truncated |-> capture.response.body_truncated,
                                           http_version   |-> capture.response.http_version ] ] ]

\* CaptureRecord::transcript
transcript(capture) ==
    [ handshake |-> capture.canonical_handshake,
      app_data  |-> capture.canonical_app_data ]

\* A capture record as the capture engine returns it, for given canonical bytes.
CaptureWith(hs, ad) ==
    [ domain              |-> << "a" >>,
      method              |-> "GET",
      captured_at         |-> 0,
      tls                 |-> [ version |-> "TLS13", cipher |-> "TLS13_AES_128_GCM_SHA256",
                                cert_fingerprints |-> << << "sha256", "c1" >> >>,
                                alpn |-> None ],
      response            |-> [ http_version |-> << "HTTP/1.1" >>, status_code |-> 200,
                                reason |-> << "OK" >>, headers |-> << >>, body |-> << >>,
                                body_truncated |-> FALSE ],
      headers             |-> << >>,
      canonical_handshake |-> hs,
      canonical_app_data  |-> ad ]

SampleStatement == [ type |-> "header:absent", target |-> << "Strict" >> ]

\* -------------------------------------------------- prover state machine
UsizeMax == 2147483647

\* lastTamper when the last edit was not a witness flip.
NoTamper == [ kind |-> "none", label |-> "none" ]

\* Url::parse of the --url argument.
UrlTable ==
    [ not_a_url  |-> Err(<< "invalid URL" >>),
      http_a     |-> Ok([ scheme |-> "http", host |-> Some(<< "a" >>), port |-> 80,
                          path |-> "/", query |-> None ]),
      https_a    |-> Ok([ scheme |-> "https", host |-> Some(<< "a" >>), port |-> 443,
                          path |-> "/", query |-> None ]),
      https_ipv6 |-> Ok([ scheme |-> "https", host |-> Some(<< "[::1]" >>), port |-> 443,
                          path |-> "/x", query |-> Some("q") ]) ]

\* ServerName::try_from(domain)
ServerNameOk(domain) == domain # << "[::1]" >>

\* --prove expressions the runs are started with.
Expressions ==
    { << "header", ":", "present", ":", "Server" >>,
      << "header", ":", "eq", ":", "Server", ":", "\"", "apache", "\"" >>,
      << "hash", ":", "eq", ":", "SHA256", ":", "a" >>,
      << "regex", ":", "scope=", "body", ":", "h", "i" >>,
      << "regex", ":", "(" >>,
      << "header", ":", "absent", ":", "\"", "Strict" >>,
      << "bogus", ":", "Server" >>,
      << "header", ":", "eq", ":", "Server" >>,
      << "header", ":", ":", "Server" >>,
      << "regex", ":", "scope=", "nowhere", ":", "h" >>,
      << "regex", ":", "case_sensitive=", "maybe", ":", "h" >>,
      << "hash", ":", "eq", ":", "md5", ":", "a" >> }

\* What a peer may send before closing, in the segments the reads return.
StatusLine == << "HTTP/1.1", " ", "c200", " ", "OK", "CR", "LF" >>
Wires ==
    { << StatusLine, << "Server", ":", " ", "Apache", "CR", "LF", "CR", "LF" >>, << "h", "i" >> >>,
      << << "HTTP/1.1", " ", "c301", " ", "Moved", "CR", "LF" >>, << "CR", "LF" >> >>,
      << StatusLine, << "Server", ":", "Example", "CR", "LF" >> >>,
      << << "HTTP/1.1", " ", "abc", "CR", "LF", "CR", "LF" >> >>,
      << >> }

\* What the TLS layer exposes after the handshake.
Sessions ==
    { [ protocol_version |-> Some("TLS13"),
        negotiated_cipher_suite |-> Some("TLS13_AES_128_GCM_SHA256"),
        alpn_protocol |-> None, peer_certificates |-> Some(<< "c1", "c2" >>) ],
      [ protocol_version |-> Some("TLS12"),
        negotiated_cipher_suite |-> Some("TLS_ECDHE_RSA_WITH_AES_128_GCM_SHA256"),
        alpn_protocol |-> None, peer_certificates |-> Some(<< "c1" >>) ],
      [ protocol_version |-> None, negotiated_cipher_suite |-> None,
        alpn_protocol |-> None, peer_certificates |-> None ] }

NoFile == [ written |-> "none", format |-> "none", artifact |-> None ]

IdleParsed == [ url |-> None, statement |-> None, max_body_bytes |-> 0, domain |-> << >> ]
IdleNet ==
    [ connects |-> 0, handshakes |-> 0, requests |-> 0, request |-> None,
      wire |-> << >>, raw |-> << >>, reads |-> 0, lastRead |-> "none", session |-> None ]
IdleOut ==
    [ record |-> None, evaluation |-> None, commitments |-> None, built |-> None,
      file |-> NoFile, err |-> << >>, printed |-> << >> ]

\* Threads that may call capture(), none of them inside a call.
Callers == 1..MaxCallers
IdleCallers == [ t \in Callers |-> [ pc |-> "idle", calls |-> 0 ] ]

\* No response or statement is under evaluation.
IdleEv == [ phase |-> "none" ]

\* No prover run is in progress (the verifier alone is exercised).
ProverIdle ==
    /\ cli = [ url |-> "https_a", prove |-> << >>, method |-> "GET", hash_alg |-> "Blake3",
               format |-> "Json", max_body_kb |-> 256, timeout_secs |-> None,
               dry_run |-> FALSE ]
    /\ pc = "idle"
    /\ parsed = IdleParsed
    /\ provider = [ done |-> FALSE, effects |-> 0 ]
    /\ net = IdleNet
    /\ out = IdleOut

\* A prover process starts with its command line; no verifier has run.
Init ==
    /\ cli \in [ url : DOMAIN UrlTable, prove : Expressions, method : { "GET", "HEAD" },
                 hash_alg : Algorithms, format : { "Json", "Cbor" },
                 max_body_kb : { 0, 1, UsizeMax }, timeout_secs : { None, Some(0) },
                 dry_run : BOOLEAN ]
    /\ pc = "start"
    /\ parsed = IdleParsed
    /\ provider = [ done |-> FALSE, effects |-> 0 ]
    /\ net = IdleNet
    /\ out = IdleOut
    /\ artifact = build_artifact(CaptureWith(<< >>, << >>), SampleStatement,
                                 build_commitments(transcript(CaptureWith(<< >>, << >>)),
                                                   "Blake3", TRUE))
    /\ tampers = 0
    /\ lastTamper = NoTamper
    /\ vpc = "idle"
    /\ validation = OkResult
    /\ verdict = OkResult
    /\ stdout = << >>
    /\ callers = IdleCallers
    /\ ev = IdleEv

\* main returns Err(e): the `?` on a failed step.
Fail(e) ==
    /\ pc' = "failed"
    /\ out' = [ out EXCEPT !.err = e ]

\* main: Url::parse(&cli.url)
ParseUrl ==
    /\ pc = "start"
    /\ IF UrlTable[cli.url].ok
       THEN /\ parsed' = [ parsed EXCEPT !.url = UrlTable[cli.url].val ]
            /\ pc' = "url_parsed"
            /\ UNCHANGED out
       ELSE Fail(<< "invalid URL" >>) /\ UNCHANGED parsed
    /\ UNCHANGED << cli, provider, net >>
    /\ UNCHANGED << vvars, xvars >>

\* (variant: a parse failure falls back to a default statement)
ParseStatement_fallback ==
    /\ pc = "url_parsed"
    /\ LET r == parse_statement(cli.prove)
       IN  parsed' = [ parsed EXCEPT !.statement =
                         IF r.ok THEN r.val
                         ELSE Some([ type |-> "header:absent", target |-> << "Strict" >> ]) ]
    /\ pc' = "stmt_parsed"
    /\ UNCHANGED << cli, provider, net, out >>
    /\ UNCHANGED << vvars, xvars >>

\* main: parse_statement(&cli.prove)
ParseStatement ==
    /\ pc = "url_parsed"
    /\ LET r == parse_statement(cli.prove)
       IN  IF r.ok
           THEN /\ parsed' = [ parsed EXCEPT !.statement = r.val ]
                /\ pc' = "stmt_parsed"
                /\ UNCHANGED out
           ELSE Fail(<< "invalid statement expression" >> \o r.err) /\ UNCHANGED parsed
    /\ UNCHANGED << cli, provider, net >>
    /\ UNCHANGED << vvars, xvars >>

\* main: max_body_kb.checked_mul(1024)
BuildOptions ==
    /\ pc = "stmt_parsed"
    /\ IF cli.max_body_kb > UsizeMax \div 1024
       THEN Fail(<< "max-body-kb overflow" >>) /\ UNCHANGED parsed
       ELSE /\ parsed' = [ parsed EXCEPT !.max_body_bytes = cli.max_body_kb * 1024 ]
            /\ pc' = "options"
            /\ UNCHANGED out
    /\ UNCHANGED << cli, provider, net >>
    /\ UNCHANGED << vvars, xvars >>

\* capture.rs install_crypto_provider: Once::call_once
install_crypto_provider(p) ==
    IF p.done THEN p ELSE [ done |-> TRUE, effects |-> p.effects + 1 ]

\* capture: install_crypto_provider(), the scheme check and the host.
CaptureStart ==
    /\ pc = "options"
    /\ provider' = install_crypto_provider(provider)
    /\ LET u == parsed.url[1]
       IN  IF u.scheme # "https" THEN Fail(<< "only https:// URLs are supported" >>)
                                      /\ UNCHANGED parsed
           ELSE IF ~IsSome(u.host) THEN Fail(<< "URL missing host" >>) /\ UNCHANGED parsed
           ELSE /\ parsed' = [ parsed EXCEPT !.domain = u.host[1] ]
                /\ pc' = "resolved"
                /\ UNCHANGED out
    /\ UNCHANGED << cli, net >>
    /\ UNCHANGED << vvars, xvars >>

\* capture: TcpStream::connect(&addr); the peer it reaches decides the bytes.
Connect ==
    /\ pc = "resolved"
    /\ \/ \E w \in Wires :
            /\ net' = [ net EXCEPT !.connects = @ + 1, !.wire = w ]
            /\ pc' = "connected"
            /\ UNCHANGED out
       \/ /\ net' = [ net EXCEPT !.connects = @ + 1 ]
          /\ Fail(<< "failed to connect" >>)
    /\ UNCHANGED << cli, parsed, provider >>
    /\ UNCHANGED << vvars, xvars >>

\* capture: set_read_timeout / set_write_timeout (a zero duration is refused)
SetTimeouts ==
    /\ pc = "connected"
    /\ IF IsSome(cli.timeout_secs) /\ cli.timeout_secs[1] = 0
       THEN Fail(<< "cannot set a 0 duration timeout" >>)
       ELSE pc' = "timeouts_set" /\ UNCHANGED out
    /\ UNCHANGED << cli, parsed, provider, net >>
    /\ UNCHANGED << vvars, xvars >>

\* capture: build_tls_config, ServerName::try_from, ClientConnection::new
PrepareTls ==
    /\ pc = "timeouts_set"
    /\ \/ Fail(<< "failed to load system certificates" >>)
       \/ /\ ~ServerNameOk(parsed.domain)
          /\ Fail(<< "invalid DNS name" >>)
       \/ /\ ServerNameOk(parsed.domain)
          /\ \/ Fail(<< "failed to negotiate TLS" >>)
             \/ pc' = "conn_ready" /\ UNCHANGED out
    /\ UNCHANGED << cli, parsed, provider, net >>
    /\ UNCHANGED << vvars, xvars >>

\* capture.rs build_request
build_request(method, host, target) ==
    [ method |-> method, target |-> target, host |-> host,
      headers |-> << "Host", "User-Agent", "Accept", "Connection: close" >> ]

TargetOf(u) == [ path |-> u.path, query |-> u.query ]

\* capture: stream.write_all drives the TLS handshake first.
Handshake ==
    /\ pc = "conn_ready"
    /\ \/ \E sess \in Sessions :
            /\ net' = [ net EXCEPT !.handshakes = @ + 1, !.session = Some(sess) ]
            /\ pc' = "handshaken"
            /\ UNCHANGED out
       \/ /\ net' = [ net EXCEPT !.handshakes = @ + 1 ]
          /\ Fail(<< "tls handshake failed" >>)
    /\ UNCHANGED << cli, parsed, provider >>
    /\ UNCHANGED << vvars, xvars >>

\* capture: stream.write_all(request) and flush
SendRequest ==
    /\ pc = "handshaken"
    /\ net' = [ net EXCEPT !.requests = @ + 1,
                           !.request = Some(build_request(cli.method, parsed.domain,
                                                          TargetOf(parsed.url[1]))) ]
    /\ \/ pc' = "reading" /\ UNCHANGED out
       \/ Fail(<< "write failed" >>)
    /\ UNCHANGED << cli, parsed, provider >>
    /\ UNCHANGED << vvars, xvars >>

\* read loop, Ok(n): raw.extend_from_slice(&buf[..n])
ReadData ==
    /\ pc = "reading"
    /\ net.reads < MaxReads
    /\ Len(net.wire) > 0
    /\ net' = [ net EXCEPT !.raw = @ \o Head(net.wire), !.wire = Tail(@),
                           !.reads = @ + 1, !.lastRead = "Data" ]
    /\ UNCHANGED << cli, pc, parsed, provider, out >>
    /\ UNCHANGED << vvars, xvars >>

\* read loop, Ok(0): break
ReadEof ==
    /\ pc = "reading"
    /\ net.reads < MaxReads
    /\ net' = [ net EXCEPT !.reads = @ + 1, !.lastRead = "Eof" ]
    /\ pc' = "eof"
    /\ UNCHANGED << cli, parsed, provider, out >>
    /\ UNCHANGED << vvars, xvars >>

\* read loop, Err(e) if e.kind() == WouldBlock: continue.  This is what the
\* socket returns when the read timeout expires (EAGAIN).
ReadWouldBlock ==
    /\ pc = "reading"
    /\ net.reads < MaxReads
    /\ net' = [ net EXCEPT !.reads = @ + 1, !.lastRead = "WouldBlock" ]
    /\ UNCHANGED << cli, pc, parsed, provider, out >>
    /\ UNCHANGED << vvars, xvars >>

\* (variant: a read error ends the loop and the bytes read so far are kept)
ReadError_keeps_partial ==
    /\ pc = "reading"
    /\ net.reads < MaxReads
    /\ \E kind \in { "TimedOut", "Other" } :
          net' = [ net EXCEPT !.reads = @ + 1, !.lastRead = kind ]
    /\ pc' = "eof"
    /\ UNCHANGED << cli, parsed, provider, out >>
    /\ UNCHANGED << vvars, xvars >>

\* read loop, Err(e): return Err(e.into()) (TimedOut, reset, unexpected EOF)
ReadError ==
    /\ pc = "reading"
    /\ net.reads < MaxReads
    /\ \E kind \in { "TimedOut", "Other" } :
          net' = [ net EXCEPT !.reads = @ + 1, !.lastRead = kind ]
    /\ Fail(<< "read failed" >>)
    /\ UNCHANGED << cli, parsed, provider >>
    /\ UNCHANGED << vvars, xvars >>

\* (variant: a 301 response makes capture connect again)
FinishCapture_follows_redirect ==
    /\ pc = "eof"
    /\ LET tls == extract_tls_metadata(net.session[1], parsed.domain)
           p   == parse_http_response(net.raw, parsed.max_body_bytes)
       IN  IF ~p.ok THEN Fail(p.err) /\ UNCHANGED net
           ELSE IF p.val[1].response.status_code = 301
           THEN /\ pc' = "resolved"
                /\ net' = [ net EXCEPT !.raw = << >>, !.reads = 0 ]
                /\ UNCHANGED out
           ELSE /\ out' = [ out EXCEPT !.record = Some(
                     [ requested_url       |-> parsed.url[1],
                       domain              |-> parsed.domain,
                       method              |-> cli.method,
                       captured_at         |-> 1,
                       tls                 |-> tls,
                       response            |-> p.val[1].response,
                       canonical_handshake |-> canonicalize_handshake(tls, parsed.domain),
                       canonical_app_data  |->
                           canonicalize_app_data(p.val[1].response, p.val[1].headers),
                       headers             |-> p.val[1].header_map ]) ]
                /\ pc' = "captured"
                /\ UNCHANGED net
    /\ UNCHANGED << cli, parsed, provider >>
    /\ UNCHANGED << vvars, xvars >>

\* capture after the loop: extract_tls_metadata, parse_http_response, the two
\* canonicalizations and the CaptureRecord.
FinishCapture ==
    /\ pc = "eof"
    /\ LET tls == extract_tls_metadata(net.session[1], parsed.domain)
           p   == parse_http_response(net.raw, parsed.max_body_bytes)
       IN  IF ~p.ok THEN Fail(p.err)
           ELSE /\ out' = [ out EXCEPT !.record = Some(
                     [ requested_url       |-> parsed.url[1],
                       domain              |-> parsed.domain,
                       method              |-> cli.method,
                       captured_at         |-> 1,
                       tls                 |-> tls,
                       response            |-> p.val[1].response,
                       canonical_handshake |-> canonicalize_handshake(tls, parsed.domain),
                       canonical_app_data  |->
                           canonicalize_app_data(p.val[1].response, p.val[1].headers),
                       headers             |-> p.val[1].header_map ]) ]
                /\ pc' = "captured"
    /\ UNCHANGED << cli, parsed, provider, net >>
    /\ UNCHANGED << vvars, xvars >>

\* (variant: an unsatisfied statement makes main return an error)
Evaluate_fatal ==
    /\ pc = "captured"
    /\ LET e == evaluate(parsed.statement[1], out.record[1])
       IN  IF e.satisfied
           THEN /\ out' = [ out EXCEPT !.evaluation = Some(e) ]
                /\ pc' = "evaluated"
           ELSE /\ out' = [ out EXCEPT !.evaluation = Some(e),
                                       !.err = << "statement not satisfied" >> ]
                /\ pc' = "failed"
    /\ UNCHANGED << cli, parsed, provider, net >>
    /\ UNCHANGED << vvars, xvars >>

\* main: evaluate(&statement, &capture)
Evaluate ==
    /\ pc = "captured"
    /\ out' = [ out EXCEPT !.evaluation = Some(evaluate(parsed.statement[1], out.record[1])) ]
    /\ pc' = "evaluated"
    /\ UNCHANGED << cli, parsed, provider, net >>
    /\ UNCHANGED << vvars, xvars >>

\* main: if cli.dry_run, print the preview and return
DryRun ==
    /\ pc = "evaluated"
    /\ cli.dry_run
    /\ out' = [ out EXCEPT !.printed = << "preview" >> ]
    /\ pc' = "done"
    /\ UNCHANGED << cli, parsed, provider, net >>
    /\ UNCHANGED << vvars, xvars >>

\* main: build_commitments(&capture.transcript(), cli.hash_alg.into(), true)
BuildCommitments ==
    /\ pc = "evaluated"
    /\ ~cli.dry_run
    /\ out' = [ out EXCEPT !.commitments =
                  Some(build_commitments(transcript(out.record[1]), cli.hash_alg, TRUE)) ]
    /\ pc' = "committed"
    /\ UNCHANGED << cli, parsed, provider, net >>
    /\ UNCHANGED << vvars, xvars >>

\* main: build_artifact(&capture, &statement, commitments)
BuildArtifact ==
    /\ pc = "committed"
    /\ out' = [ out EXCEPT !.built =
                  Some(build_artifact(out.record[1], parsed.statement[1], out.commitments[1])) ]
    /\ pc' = "built"
    /\ UNCHANGED << cli, parsed, provider, net >>
    /\ UNCHANGED << vvars, xvars >>

\* main: write_artifact, then the [ok] line; fs::write may fail part-way.
WriteArtifact ==
    /\ pc = "built"
    /\ \/ /\ out' = [ out EXCEPT
                        !.file = [ written |-> "complete", format |-> cli.format,
                                   artifact |-> out.built ],
                        !.printed = << "[ok]", out.evaluation[1].satisfied >> ]
          /\ pc' = "done"
       \/ \E w \in { "none", "partial" } :
            /\ out' = [ out EXCEPT !.file = [ written |-> w, format |-> cli.format,
                                              artifact |-> None ],
                                   !.err = << "failed to write" >> ]
            /\ pc' = "failed"
    /\ UNCHANGED << cli, parsed, provider, net >>
    /\ UNCHANGED << vvars, xvars >>

\* verifier load_artifact
load_artifact(file, format) ==
    IF file.written # "complete" THEN Err(<< "unable to parse artifact" >>)
    ELSE IF format = "Auto" \/ format = file.format THEN Ok(file.artifact[1])
    ELSE Err(<< "unable to parse artifact" >>)

\* verifier main: fs::read and load_artifact of the file the prover left.
LoadArtifact ==
    /\ pc \in { "done", "failed" }
    /\ out.file.written # "none"
    /\ vpc = "idle"
    /\ \E format \in { "Auto", "Json", "Cbor" } :
          LET r == load_artifact(out.file, format)
          IN  IF r.ok THEN artifact' = r.val[1] /\ vpc' = "loaded"
              ELSE vpc' = "load_failed" /\ UNCHANGED artifact
    /\ UNCHANGED << tampers, lastTamper, validation, verdict, stdout >>
    /\ UNCHANGED << pvars, xvars >>

\* ------------------------------------------------- verification state machine
Domains == { << >>, << " " >>, << "a" >> }
ReplChars == { 1, 16, Pad, BadChar }
DigestReplChars == { 1, BadChar }

ReplaceAt(s, i, x) == [ s EXCEPT ![i] = x ]

\* The artifact file handed to the verifier was written by the prover.
InitVerify ==
    /\ \E hs \in ByteStrings, ad \in ByteStrings, alg \in Algorithms :
          artifact = build_artifact(CaptureWith(hs, ad), SampleStatement,
                                    build_commitments(transcript(CaptureWith(hs, ad)), alg, TRUE))
    /\ ProverIdle
    /\ tampers = 0
    /\ lastTamper = NoTamper
    /\ vpc = "loaded"
    /\ validation = OkResult
    /\ verdict = OkResult
    /\ stdout = << >>
    /\ callers = IdleCallers
    /\ ev = IdleEv

\* The artifact file is edited between writing and verification.  Only a
\* witness flip is remembered in lastTamper.
Tampered(a, lt) ==
    /\ vpc = "loaded"
    /\ tampers < MaxTamper
    /\ a # artifact
    /\ artifact' = a
    /\ tampers' = tampers + 1
    /\ lastTamper' = lt
    /\ UNCHANGED << vpc, validation, verdict, stdout >>
    /\ UNCHANGED << pvars, xvars >>

FlipOf(kind, label) == [ kind |-> kind, label |-> label ]

SetDomain ==
    \E d \in Domains : Tampered([ artifact EXCEPT !.domain = d ], NoTamper)

\* The file names another domain, another TLS context and another envelope
\* (format version, time, tool version) than the capture it was built from.
SetContext ==
    Tampered([ artifact EXCEPT !.domain = << "b" >>,
                               !.tls = [ version |-> "TLS12",
                                         cipher  |-> "TLS_ECDHE_RSA_WITH_AES_128_GCM_SHA256",
                                         cert_fingerprints |-> << << "sha256", "c2" >> >>,
                                         alpn    |-> Some(<< "h2" >>) ],
                               !.version = "2.0",
                               !.time_utc = 1,
                               !.meta.tool_version = "0.2.0" ], NoTamper)

ClearFingerprints ==
    Tampered([ artifact EXCEPT !.tls.cert_fingerprints = << >> ], NoTamper)

DropWitness ==
    Tampered([ artifact EXCEPT !.commitments.witness = None ], NoTamper)

\* The statement field of the file is replaced by another statement; the
\* disclosed transcript names no header, so the second one is false of it.
StatementSamples ==
    { SampleStatement, [ type |-> "header:present", target |-> << "Server" >> ] }

SetStatement ==
    \E st \in StatementSamples : Tampered([ artifact EXCEPT !.statement = st ], NoTamper)

\* The first character of a stored digest or of the proof blob is replaced.
FlipDigestChar ==
    \E c \in DigestReplChars :
       \/ Tampered([ artifact EXCEPT !.commitments.handshake = ReplaceAt(@, 1, c) ], NoTamper)
       \/ Tampered([ artifact EXCEPT !.commitments.app_data = ReplaceAt(@, 1, c) ], NoTamper)

FlipProofChar ==
    \E c \in DigestReplChars :
       Tampered([ artifact EXCEPT !.proof = ReplaceAt(@, 1, c) ], NoTamper)

\* An artifact that verifies with a witness has one byte of the witness text,
\* as stored in the artifact, replaced.
FlipWitnessChar ==
    /\ IsSome(artifact.commitments.witness)
    /\ IsOk(verify_artifact(artifact).result)
    /\ \E c \in ReplChars :
        \/ \E i \in 1..Len(artifact.commitments.witness[1].handshake) :
              Tampered([ artifact EXCEPT !.commitments.witness[1].handshake = ReplaceAt(@, i, c) ],
                       FlipOf("witness_char", "handshake"))
        \/ \E i \in 1..Len(artifact.commitments.witness[1].app_data) :
              Tampered([ artifact EXCEPT !.commitments.witness[1].app_data = ReplaceAt(@, i, c) ],
                       FlipOf("witness_char", "app-data"))

\* An artifact that verifies with a witness has one byte of the disclosed
\* transcript bytes replaced and re-encoded.
FlipWitnessByte ==
    /\ IsSome(artifact.commitments.witness)
    /\ IsOk(verify_artifact(artifact).result)
    /\ \E b \in ByteVals \cup { 1 } :
        \/ LET bytes == B64Decode(artifact.commitments.witness[1].handshake)
           IN  \E i \in 1..Len(bytes) :
                 Tampered([ artifact EXCEPT !.commitments.witness[1].handshake =
                                from_bytes(ReplaceAt(bytes, i, b)) ],
                          FlipOf("witness_byte", "handshake"))
        \/ LET bytes == B64Decode(artifact.commitments.witness[1].app_data)
           IN  \E i \in 1..Len(bytes) :
                 Tampered([ artifact EXCEPT !.commitments.witness[1].app_data =
                                from_bytes(ReplaceAt(bytes, i, b)) ],
                          FlipOf("witness_byte", "app-data"))

\* verifier main: verify_artifact, then VALID or INVALID: <reason>.
Verify ==
    /\ vpc = "loaded"
    /\ LET r == verify_artifact(artifact)
       IN  /\ validation' = r.validation
           /\ verdict' = r.result
           /\ stdout' = r.printed \o << IF IsOk(r.result) THEN "VALID" ELSE "INVALID" >>
    /\ vpc' = "verified"
    /\ UNCHANGED << artifact, tampers, lastTamper >>
    /\ UNCHANGED << pvars, xvars >>

Next ==
    \/ ParseUrl
    \/ ParseStatement
    \/ BuildOptions
    \/ CaptureStart
    \/ Connect
    \/ SetTimeouts
    \/ PrepareTls
    \/ Handshake
    \/ SendRequest
    \/ ReadData
    \/ ReadEof
    \/ ReadWouldBlock
    \/ ReadError
    \/ FinishCapture
    \/ Evaluate
    \/ DryRun
    \/ BuildCommitments
    \/ BuildArtifact
    \/ WriteArtifact
    \/ LoadArtifact
    \/ Verify

Spec == Init /\ [][Next]_vars

NextVerify ==
    \/ SetDomain
    \/ SetStatement
    \/ ClearFingerprints
    \/ DropWitness
    \/ FlipDigestChar
    \/ FlipProofChar
    \/ FlipWitnessChar
    \/ FlipWitnessByte
    \/ Verify

SpecVerify == InitVerify /\ [][NextVerify]_vars

\* The verifier is handed a file whose context, digests, proof or witness
\* were edited after the prover wrote it.
NextContext ==
    \/ SetContext
    \/ SetDomain
    \/ ClearFingerprints
    \/ DropWitness
    \/ FlipDigestChar
    \/ FlipProofChar
    \/ FlipWitnessByte
    \/ Verify

SpecContext == InitVerify /\ [][NextContext]_vars

\* ------------------------------------------------ crypto provider, threads
\* The artifact slot when no verifier is exercised.
VerifierIdle ==
    /\ artifact = build_artifact(CaptureWith(<< >>, << >>), SampleStatement,
                                 build_commitments(transcript(CaptureWith(<< >>, << >>)),
                                                   "Blake3", TRUE))
    /\ tampers = 0
    /\ lastTamper = NoTamper
    /\ vpc = "idle"
    /\ validation = OkResult
    /\ verdict = OkResult
    /\ stdout = << >>

\* Several threads of one process, each about to call capture().
InitProvider ==
    /\ ProverIdle
    /\ VerifierIdle
    /\ callers = IdleCallers
    /\ ev = IdleEv

\* A thread calls capture(); its first statement is install_crypto_provider().
CallCapture ==
    \E t \in Callers :
        /\ callers[t].pc = "idle"
        /\ callers[t].calls < MaxCalls
        /\ callers' = [ callers EXCEPT ![t] = [ pc |-> "call_once", calls |-> @.calls + 1 ] ]
        /\ UNCHANGED << pvars, vvars, ev >>

\* (variant: the guard is a plain flag test, not a Once: a second thread may
\* enter while the first is still inside the closure)
OnceEnter_unguarded ==
    \E t \in Callers :
        /\ callers[t].pc = "call_once"
        /\ IF provider.done
           THEN callers' = [ callers EXCEPT ![t].pc = "installed" ] /\ UNCHANGED provider
           ELSE /\ callers' = [ callers EXCEPT ![t].pc = "in_closure" ]
                /\ provider' = [ provider EXCEPT !.effects = @ + 1 ]
        /\ UNCHANGED << cli, pc, parsed, net, out, vvars, ev >>

\* INIT.call_once(..): a completed Once returns at once; an incomplete one is
\* entered by one thread only, the others block until it completes.
OnceEnter ==
    \E t \in Callers :
        /\ callers[t].pc = "call_once"
        /\ IF provider.done
           THEN callers' = [ callers EXCEPT ![t].pc = "installed" ] /\ UNCHANGED provider
           ELSE /\ \A u \in Callers : callers[u].pc # "in_closure"
                /\ callers' = [ callers EXCEPT ![t].pc = "in_closure" ]
                /\ provider' = [ provider EXCEPT !.effects = @ + 1 ]
        /\ UNCHANGED << cli, pc, parsed, net, out, vvars, ev >>

\* The closure (install_default) returns and the Once becomes complete.
OnceComplete ==
    \E t \in Callers :
        /\ callers[t].pc = "in_closure"
        /\ callers' = [ callers EXCEPT ![t].pc = "installed" ]
        /\ provider' = [ provider EXCEPT !.done = TRUE ]
        /\ UNCHANGED << cli, pc, parsed, net, out, vvars, ev >>

\* capture between install_crypto_provider() and write_all: it either fails
\* (scheme, host, connect, TLS setup) or starts the TLS handshake.
CallerProceeds ==
    \E t \in Callers :
        /\ callers[t].pc = "installed"
        /\ \/ callers' = [ callers EXCEPT ![t].pc = "handshake" ]
           \/ callers' = [ callers EXCEPT ![t].pc = "idle" ]
        /\ UNCHANGED << pvars, vvars, ev >>

\* capture returns (a record or an error).
CallerReturns ==
    \E t \in Callers :
        /\ callers[t].pc = "handshake"
        /\ callers' = [ callers EXCEPT ![t].pc = "idle" ]
        /\ UNCHANGED << pvars, vvars, ev >>

NextProvider ==
    \/ CallCapture
    \/ OnceEnter
    \/ OnceComplete
    \/ CallerProceeds
    \/ CallerReturns

SpecProvider == InitProvider /\ [][NextProvider]_vars


\* -------------------------------------------- response parsing, evaluation
\* Header lines a response may carry; the first two share a name.
HeaderLines ==
    { << "Server", ":", " ", "Apache" >>,
      << "server", ":", "a" >>,
      << "Accept", ":", "h", "i" >> }

\* The bytes read from the peer: status line, header lines, blank line, body.
RECURSIVE JoinLines(_)
JoinLines(lines) ==
    IF Len(lines) = 0 THEN << >>
    ELSE Head(lines) \o << "CR", "LF" >> \o JoinLines(Tail(lines))

WireOf(lines, body) == StatusLine \o JoinLines(lines) \o << "CR", "LF" >> \o body

\* The tail of capture(): the response is parsed and canonicalized into a
\* CaptureRecord.
RecordOf(raw, max_body_bytes) ==
    LET p == parse_http_response(raw, max_body_bytes)
    IN  [ CaptureWith(<< >>, canonicalize_app_data(p.val[1].response, p.val[1].headers))
            EXCEPT !.response = p.val[1].response,
                   !.headers  = p.val[1].header_map ]

\* Statements an evaluation may be asked; stored is the body as kept.
EvalStatements(stored) ==
    { [ type |-> ty, target |-> << n >> ] :
        ty \in { "header:present", "header:absent" }, n \in { "Server", "X_Test" } }
    \cup
    { [ type |-> "header:eq", target |-> << "Server" >>, expected |-> e, case_sensitive |-> cs ] :
        e \in { << "apache" >>, << "a", " " >> },
        cs \in { None, Some(TRUE), Some(FALSE) } }
    \cup
    { [ type |-> "header:eq", target |-> << "X_Test" >>, expected |-> << "apache" >>,
        case_sensitive |-> None ] }
    \cup
    UNION { { [ type |-> "hash:eq", algorithm |-> alg, digest |-> d ] :
                d \in { compute_hash(alg, Codes(stored)), << "a" >> } } :
            alg \in { "Sha256", "Blake3" } }
    \cup
    { [ type |-> "regex", pattern |-> pt.p, scope |-> sc, case_sensitive |-> pt.cs ] :
        pt \in { [ p |-> << "h" >>, cs |-> TRUE ], [ p |-> << "H", "i" >>, cs |-> FALSE ] },
        sc \in { "Headers", "Body", "Any" } }
    \cup
    { [ type |-> "regex", pattern |-> << "(" >>, scope |-> "Body", case_sensitive |-> FALSE ] }

\* A response has been read in full.
InitEval ==
    /\ ProverIdle
    /\ VerifierIdle
    /\ callers = IdleCallers
    /\ \E lines \in SeqsUpTo(HeaderLines, MaxHeaders),
          body \in SeqsUpTo({ "h", "i" }, MaxBody),
          cap \in 0..MaxBody :
            ev = [ phase |-> "input", lines |-> lines, body |-> body, cap |-> cap,
                   statement |-> None, record |-> None, evaluation |-> None, alt |-> None ]

\* capture: parse_http_response and canonicalize_app_data on the bytes read.
EvParse ==
    /\ ev.phase = "input"
    /\ ev' = [ ev EXCEPT !.phase = "parsed",
                         !.record = Some(RecordOf(WireOf(ev.lines, ev.body), ev.cap)) ]
    /\ UNCHANGED << pvars, vvars, callers >>

\* main: evaluate(&statement, &capture)
EvEvaluate ==
    /\ ev.phase = "parsed"
    /\ \E st \in EvalStatements(ev.record[1].response.body) :
          ev' = [ ev EXCEPT !.phase = "evaluated",
                            !.statement = st,
                            !.evaluation = Some(evaluate(st, ev.record[1])) ]
    /\ UNCHANGED << pvars, vvars, callers >>

\* The same response arrives with its header lines in another order.
EvReorder ==
    /\ ev.phase = "parsed"
    /\ \E f \in { g \in [ 1..Len(ev.lines) -> 1..Len(ev.lines) ] :
                    \A a, b \in 1..Len(ev.lines) : a # b => g[a] # g[b] } :
        LET other == [ k \in 1..Len(ev.lines) |-> ev.lines[f[k]] ]
        IN
          /\ other # ev.lines
          /\ ev' = [ ev EXCEPT !.phase = "reordered",
                               !.alt = Some(RecordOf(WireOf(other, ev.body), ev.cap)
                                               .canonical_app_data) ]
    /\ UNCHANGED << pvars, vvars, callers >>

\* The same response arrives with one header value replaced by another.
EvChangeValue ==
    /\ ev.phase = "parsed"
    /\ \E k \in 1..Len(ev.lines), v \in { "a", "Example" } :
          LET line  == ev.lines[k]
              colon == IndexOf(line, ":")
              other == [ ev.lines EXCEPT ![k] = SubSeq(line, 1, colon) \o << v >> ]
          IN  /\ Trim(SubSeq(line, colon + 1, Len(line))) # << v >>
              /\ ev' = [ ev EXCEPT !.phase = "changed",
                                   !.alt = Some(RecordOf(WireOf(other, ev.body), ev.cap)
                                                   .canonical_app_data) ]
    /\ UNCHANGED << pvars, vvars, callers >>

NextEval ==
    \/ EvParse
    \/ EvEvaluate
    \/ EvReorder
    \/ EvChangeValue

SpecEval == InitEval /\ [][NextEval]_vars


\* ------------------------------------------------------ statement parsing
\* The colon-joined tail of an expression: ":" and a token, for every token.
RECURSIVE JoinTokens(_)
JoinTokens(tokens) ==
    IF Len(tokens) = 0 THEN << >>
    ELSE << ":" >> \o Head(tokens) \o JoinTokens(Tail(tokens))

\* A --prove expression is about to be parsed: any short run of separators,
\* quotes, backslashes, blanks and letters, or "regex" followed by tokens
\* that are modifiers, bare scope names or patterns.
InitParse ==
    /\ ProverIdle
    /\ VerifierIdle
    /\ callers = IdleCallers
    /\ \/ \E input \in SeqsUpTo({ ":", "\"", "\\", " ", "a" }, MaxExpr) :
            ev = [ phase |-> "expr", input |-> input, tokens |-> None,
                   fields |-> None, result |-> None ]
       \/ \E tokens \in SeqsUpTo({ << "scope=", "body" >>, << "scope=", "Headers" >>,
                                   << "scope=", "nowhere" >>,
                                   << "case_sensitive=", "true" >>,
                                   << "case_sensitive=", "No" >>,
                                   << "case_sensitive=", "maybe" >>,
                                   << "body" >>, << "h" >> }, MaxTokens) :
            ev = [ phase |-> "expr", input |-> << "regex" >> \o JoinTokens(tokens),
                   tokens |-> Some(tokens), fields |-> None, result |-> None ]

\* main: parse_statement(&cli.prove), which starts with tokenize(input).
ParseExpr ==
    /\ ev.phase = "expr"
    /\ ev' = [ ev EXCEPT !.phase = "parsed",
                         !.fields = Some(tokenize(ev.input)),
                         !.result = Some(parse_statement(ev.input)) ]
    /\ UNCHANGED << pvars, vvars, callers >>

NextParse ==
    \/ ParseExpr

SpecParse == InitParse /\ [][NextParse]_vars


\* =================================================================== claims
\* Properties of the loaded artifact, stated on its fields.
HasWitness == IsSome(artifact.commitments.witness)

AllBlobsBase64 ==
    /\ IsBase64(artifact.commitments.handshake)
    /\ IsBase64(artifact.commitments.app_data)
    /\ HasWitness => /\ IsBase64(artifact.commitments.witness[1].handshake)
                     /\ IsBase64(artifact.commitments.witness[1].app_data)
    /\ IsBase64(artifact.proof)

StructurallyValid ==
    /\ Len(Trim(artifact.domain)) > 0
    /\ Len(artifact.tls.cert_fingerprints) > 0
    /\ AllBlobsBase64

\* The digest a label's witness re-derives to equals the stored digest.
HandshakeAgrees ==
    from_bytes(DigestOf(artifact.commitments.algorithm,
                        B64Decode(artifact.commitments.witness[1].handshake)))
        = artifact.commitments.handshake

AppDataAgrees ==
    from_bytes(DigestOf(artifact.commitments.algorithm,
                        B64Decode(artifact.commitments.witness[1].app_data)))
        = artifact.commitments.app_data

\* The commitments are build_commitments(t, alg, TRUE) of the transcript t
\* disclosed in the witness.
CommitmentsAsBuilt ==
    /\ HasWitness
    /\ IsBase64(artifact.commitments.witness[1].handshake)
    /\ IsBase64(artifact.commitments.witness[1].app_data)
    /\ artifact.commitments =
          build_commitments(
              [ handshake |-> B64Decode(artifact.commitments.witness[1].handshake),
                app_data  |-> B64Decode(artifact.commitments.witness[1].app_data) ],
              artifact.commitments.algorithm, TRUE)

\* C1: an artifact whose commitments are build_commitments(t, alg, TRUE) for
\* some transcript t and algorithm, and which is otherwise structurally valid,
\* is accepted by verify_artifact and reported VALID; in particular the
\* unmodified artifact the prover wrote.
C1_BuiltCommitmentsVerify ==
    (vpc = "verified" /\ CommitmentsAsBuilt /\ StructurallyValid)
        => (IsOk(verdict) /\ stdout = << "VALID" >>)

C1_Witness ==
    /\ vpc = "verified"
    /\ tampers = 0
    /\ CommitmentsAsBuilt
    /\ StructurallyValid
    /\ Len(artifact.commitments.witness[1].handshake) > 0
    /\ artifact.commitments.algorithm = "Blake3"
    /\ IsOk(verdict)

\* C2: for a structurally valid artifact with a witness, verification succeeds
\* only if both re-derived digests equal the stored ones; a handshake
\* disagreement is reported as the handshake mismatch (also when app-data
\* disagrees too), an app-data disagreement alone as the app-data mismatch.
C2_MismatchPerLabel ==
    (vpc = "verified" /\ StructurallyValid /\ HasWitness)
        => /\ IsOk(verdict) <=> (HandshakeAgrees /\ AppDataAgrees)
           /\ ~HandshakeAgrees => verdict = << "DigestMismatch", "handshake" >>
           /\ (HandshakeAgrees /\ ~AppDataAgrees)
                 => verdict = << "DigestMismatch", "app-data" >>

C2_Witness ==
    /\ vpc = "verified"
    /\ StructurallyValid
    /\ HasWitness
    /\ ~HandshakeAgrees
    /\ ~AppDataAgrees
    /\ verdict = << "DigestMismatch", "handshake" >>

WitnessFlipped == lastTamper.kind \in { "witness_char", "witness_byte" }

WitnessField(label) ==
    IF label = "handshake" THEN "handshake witness" ELSE "app-data witness"

FlippedBlob ==
    IF lastTamper.label = "handshake"
    THEN artifact.commitments.witness[1].handshake
    ELSE artifact.commitments.witness[1].app_data

\* C3 as stated: after one byte of the witness of a verifying artifact is
\* flipped, verification fails with the digest mismatch of that label.
C3_FlipAlwaysDigestMismatch ==
    (vpc = "verified" /\ WitnessFlipped)
        => verdict = << "DigestMismatch", lastTamper.label >>

\* C3 (amended): after one byte of the witness of a verifying artifact is
\* flipped, verification always fails: with the digest mismatch of that label
\* when the flipped witness still decodes as base64 (always so when the byte
\* is flipped in the decoded bytes), and with the invalid-base64 error naming
\* that witness when it no longer decodes.
C3_FlipAlwaysFails ==
    (vpc = "verified" /\ WitnessFlipped)
        => /\ ~IsOk(verdict)
           /\ IsBase64(FlippedBlob)
                 => verdict = << "DigestMismatch", lastTamper.label >>
           /\ ~IsBase64(FlippedBlob)
                 => verdict = << "InvalidBase64", WitnessField(lastTamper.label) >>
           /\ lastTamper.kind = "witness_byte" => IsBase64(FlippedBlob)

C3_Witness ==
    /\ vpc = "verified"
    /\ lastTamper = [ kind |-> "witness_char", label |-> "app-data" ]
    /\ IsBase64(FlippedBlob)
    /\ verdict = << "DigestMismatch", "app-data" >>

\* C4: a structurally valid artifact with no witness is reported successful
\* (VALID) after the skipped-verification warning, whatever its stored digests.
C4_NoWitnessSkips ==
    (vpc = "verified" /\ StructurallyValid /\ ~HasWitness)
        => (IsOk(verdict) /\ stdout = << SkipWarning, "VALID" >>)

C4_Witness ==
    /\ vpc = "verified"
    /\ StructurallyValid
    /\ ~HasWitness
    /\ artifact.commitments.handshake[1] = 1
    /\ IsOk(verdict)

\* C5: when validate() fails, verification fails with that structural error,
\* whether or not the witness digests match; no digest mismatch is reported
\* for a structurally invalid artifact.
C5_StructuralFirst ==
    (vpc = "verified" /\ ~StructurallyValid)
        => /\ ~IsOk(verdict)
           /\ verdict = validation
           /\ verdict[1] \in { "MissingDomain", "MissingCertFingerprint", "InvalidBase64" }

C5_Witness ==
    /\ vpc = "verified"
    /\ Len(artifact.tls.cert_fingerprints) = 0
    /\ HasWitness
    /\ AllBlobsBase64
    /\ ~HandshakeAgrees
    /\ verdict = << "MissingCertFingerprint" >>

\* C6 as stated: validate() is Ok exactly when the domain is non-empty, there
\* is at least one fingerprint and every blob decodes as base64.
C6_ValidateIffNonEmptyDomain ==
    vpc = "verified"
        => (IsOk(validation) <=> /\ Len(artifact.domain) > 0
                                 /\ Len(artifact.tls.cert_fingerprints) > 0
                                 /\ AllBlobsBase64)

\* C6 (amended): validate() is Ok exactly when the domain is non-empty after
\* trimming whitespace, there is at least one fingerprint and every blob
\* decodes as base64; it does not depend on the witness matching the digests.
C6_ValidateIffNonBlankDomain ==
    vpc = "verified"
        => (IsOk(validation) <=> /\ Len(Trim(artifact.domain)) > 0
                                 /\ Len(artifact.tls.cert_fingerprints) > 0
                                 /\ AllBlobsBase64)

C6_Witness ==
    /\ vpc = "verified"
    /\ IsOk(validation)
    /\ HasWitness
    /\ ~AppDataAgrees
    /\ ~IsOk(verdict)

\* ------------------------------------------------------------ prover claims
ReadFailed == net.lastRead \in { "WouldBlock", "TimedOut", "Other" }

\* C7 as stated: a read that ends because the read timeout fired (the socket's
\* WouldBlock or timed-out error) or because of any other I/O error aborts the
\* capture, so the loop never keeps waiting on a silent peer.
C7_TimeoutAbortsCapture ==
    ReadFailed => (pc = "failed" /\ ~IsSome(out.record))

\* A capture step failed: main returned the error before a CaptureRecord existed.
CaptureFailed == pc = "failed" /\ ~IsSome(out.record)

NothingProduced ==
    /\ ~IsSome(out.commitments)
    /\ ~IsSome(out.built)
    /\ out.file = NoFile

\* C8: if any step of the attempt fails (scheme, connect, TLS, request write,
\* response read, response parsing) no commitments are built and no artifact
\* file is written; commitments and artifact exist only after capture returned
\* a complete CaptureRecord.
C8_AllOrNothing ==
    /\ CaptureFailed => NothingProduced
    /\ net.lastRead \in { "TimedOut", "Other" } => NothingProduced
    /\ ~NothingProduced
          => /\ IsSome(out.record)
             /\ net.lastRead = "Eof"
             /\ IsSome(find_header_split(net.raw))
             /\ out.record[1].canonical_app_data =
                   canonicalize_app_data(out.record[1].response,
                                         out.record[1].response.headers)

C8_Witness ==
    /\ CaptureFailed
    /\ net.requests = 1
    /\ Len(net.raw) > 0
    /\ out.err = << "invalid status code" >>
    /\ NothingProduced

\* C9: if parse_statement fails the run ends with an error and no connection,
\* handshake or request is ever attempted; any network activity implies the
\* statement was parsed before it.
C9_ParseBeforeNetwork ==
    /\ ~parse_statement(cli.prove).ok
          => /\ net.connects = 0 /\ net.handshakes = 0 /\ net.requests = 0
             /\ pc \in { "start", "url_parsed", "failed" }
    /\ (net.connects > 0 \/ net.handshakes > 0 \/ net.requests > 0)
          => IsSome(parsed.statement)

C9_Witness ==
    /\ pc = "failed"
    /\ out.err = << "invalid statement expression", "UnbalancedQuotes" >>
    /\ UrlTable[cli.url].ok
    /\ net = IdleNet

\* C10: one capture opens at most one connection, performs at most one
\* handshake and sends at most one request, exactly one of each when it
\* returns a record; after a failure or a response (a redirect included) it
\* never connects or sends again.
C10_SingleAttempt ==
    /\ net.connects <= 1
    /\ net.handshakes <= net.connects
    /\ net.requests <= net.handshakes
    /\ IsSome(out.record)
          => (net.connects = 1 /\ net.handshakes = 1 /\ net.requests = 1)

C10_Witness ==
    /\ pc = "done"
    /\ IsSome(out.record)
    /\ out.record[1].response.status_code = 301
    /\ net.connects = 1
    /\ net.requests = 1

\* ----------------------------------------------------- C11 crypto provider
InClosure == { t \in Callers : callers[t].pc = "in_closure" }
AtHandshake == { t \in Callers : callers[t].pc = "handshake" }

\* C11: over any number of capture calls by any number of threads the
\* provider installation runs at most once (later calls do not run it again),
\* never in two threads at a time, and it has completed before any capture
\* starts its TLS handshake.
C11_InstalledOnceBeforeHandshake ==
    /\ provider.effects <= 1
    /\ Cardinality(InClosure) <= 1
    /\ provider.done => (provider.effects = 1 /\ InClosure = { })
    /\ AtHandshake # { } => (provider.done /\ provider.effects = 1)

C11_Witness ==
    /\ Cardinality(AtHandshake) >= 2
    /\ \E t \in Callers : callers[t].calls >= 2
    /\ provider.effects = 1

\* ------------------------------------------------------ C12 fingerprints
\* The certificates the TLS layer exposed to the capture that produced the
\* record.
ExposedCerts == net.session[1].peer_certificates

\* C12: the TlsMetadata of a captured record has a non-empty fingerprint
\* list: one sha256 fingerprint per exposed peer certificate, in chain
\* order, and exactly the marker domain-only:<domain> when no certificates
\* are exposed; the artifact built from it passes the fingerprint check.
C12_FingerprintsNonEmpty ==
    /\ IsSome(out.record) =>
         LET fps == out.record[1].tls.cert_fingerprints
         IN  /\ Len(fps) > 0
             /\ IsSome(ExposedCerts) =>
                   /\ Len(fps) = Len(ExposedCerts[1])
                   /\ \A k \in 1..Len(fps) : fps[k] = << "sha256", ExposedCerts[1][k] >>
             /\ ~IsSome(ExposedCerts) =>
                   fps = << << "domain_only" >> \o out.record[1].domain >>
    /\ IsSome(out.built) =>
         /\ out.built[1].tls.cert_fingerprints = out.record[1].tls.cert_fingerprints
         /\ IsOk(TlsValidate(out.built[1].tls))
         /\ IsOk(validate(out.built[1]))

C12_Witness ==
    /\ IsSome(out.built)
    /\ ~IsSome(ExposedCerts)
    /\ out.built[1].tls.cert_fingerprints = << << "domain_only", "a" >> >>

\* ------------------------------------------------- C13 canonical app data
\* C13 as stated: the canonical app-data bytes are the same for every order
\* in which the header lines arrive (entries sharing a name included), and
\* differ whenever a header value differs.
C13_OrderIndependent ==
    /\ ev.phase = "reordered" => ev.alt[1] = ev.record[1].canonical_app_data
    /\ ev.phase = "changed" => ev.alt[1] # ev.record[1].canonical_app_data

\* ---------------------------------------------------- C14 body truncation
StoredBody == ev.record[1].response.body
Truncated == ev.record[1].response.body_truncated

\* C14: a body longer than max_body_bytes is stored as exactly its first
\* max_body_bytes bytes with body_truncated true, a body that is not longer
\* is stored whole with the flag false; on a truncated record every hash:eq
\* statement is unsatisfied with the truncation detail, whatever the
\* algorithm and the digest (the digest of the stored prefix included).
C14_TruncationFailsHash ==
    /\ ev.phase \in { "parsed", "evaluated" } =>
          IF Len(ev.body) > ev.cap
          THEN /\ StoredBody = SubSeq(ev.body, 1, ev.cap)
               /\ Len(StoredBody) = ev.cap
               /\ Truncated
          ELSE StoredBody = ev.body /\ ~Truncated
    /\ (ev.phase = "evaluated" /\ Truncated /\ ev.statement.type = "hash:eq") =>
          ev.evaluation[1] =
              [ satisfied |-> FALSE,
                details   |-> Some("response body truncated; hash unverifiable") ]

C14_Witness ==
    /\ ev.phase = "evaluated"
    /\ Truncated
    /\ Len(StoredBody) >= 1
    /\ ev.statement.type = "hash:eq"
    /\ ev.statement.digest = compute_hash(ev.statement.algorithm, Codes(StoredBody))
    /\ ~ev.evaluation[1].satisfied

\* --------------------------------------------- C15 truncation is permanent
\* The outcome of the statement depends on the stored body.
BodyDecides(st, record) ==
    \/ st.type = "hash:eq"
    \/ /\ st.type = "regex"
       /\ st.scope = "Body"
    \/ /\ st.type = "regex"
       /\ st.scope = "Any"
       /\ RegexCompiles(st.pattern)
       /\ ~is_match(st.pattern, st.case_sensitive, headers_as_text(record.response.headers))

\* C15 as stated: on a record with body_truncated true no statement decided
\* by the body (hash:eq, regex over body or any) is reported satisfied on the
\* strength of the stored prefix, and the flag is still true in the record,
\* in the canonical app-data bytes and in the artifact.
C15_TruncatedNeverSatisfies ==
    (ev.phase = "evaluated" /\ Truncated) =>
        LET rec == ev.record[1]
            art == build_artifact(rec, ev.statement,
                                  build_commitments(transcript(rec), "Blake3", TRUE))
        IN  /\ BodyDecides(ev.statement, rec) => ~ev.evaluation[1].satisfied
            /\ rec.canonical_app_data[Len(rec.canonical_app_data) - 1] = JsonBool(TRUE)[1]
            /\ art.meta.annotations.body_truncated

\* ------------------------------------------------ C19 header present/absent
HeaderKeys == DOMAIN ev.record[1].headers

\* C19: header:present:<name> is satisfied exactly when the lower-cased name
\* is a key of the record's header map, header:absent:<name> exactly when it
\* is not; for any name, in whatever case it is written, exactly one of the
\* two is satisfied.
C19_PresentXorAbsent ==
    (ev.phase = "evaluated" /\ ev.statement.type \in { "header:present", "header:absent" }) =>
        LET key == Lower(ev.statement.target)
            sat == ev.evaluation[1].satisfied
        IN  /\ ev.statement.type = "header:present" => (sat <=> key \in HeaderKeys)
            /\ ev.statement.type = "header:absent" => (sat <=> key \notin HeaderKeys)
            /\ \A n \in { ev.statement.target, key } :
                  /\ evaluate([ type |-> "header:present", target |-> n ], ev.record[1]).satisfied
                        # evaluate([ type |-> "header:absent", target |-> n ], ev.record[1]).satisfied
                  /\ evaluate([ type |-> ev.statement.type, target |-> n ], ev.record[1]).satisfied
                        = sat

C19_Witness ==
    /\ ev.phase = "evaluated"
    /\ ev.statement = [ type |-> "header:present", target |-> << "Server" >> ]
    /\ << "Server" >> \notin HeaderKeys
    /\ << "server" >> \in HeaderKeys
    /\ ev.evaluation[1].satisfied

\* ------------------------------------------------------- C20 header equals
\* C20: header:eq:<name>:<value> is satisfied exactly when the lower-cased
\* name is a key of the header map and one of the values under it equals the
\* expected value after trimming both, ignoring ASCII case unless the
\* statement's case_sensitive flag is true; it is unsatisfied when the header
\* is absent.
C20_HeaderEquals ==
    (ev.phase = "evaluated" /\ ev.statement.type = "header:eq") =>
        LET key    == Lower(ev.statement.target)
            want   == Trim(ev.statement.expected)
            strict == ev.statement.case_sensitive = Some(TRUE)
        IN  ev.evaluation[1].satisfied <=>
              /\ key \in HeaderKeys
              /\ \E k \in 1..Len(ev.record[1].headers[key]) :
                    LET got == Trim(ev.record[1].headers[key][k])
                    IN  IF strict THEN got = want ELSE Lower(got) = Lower(want)

C20_Witness ==
    /\ ev.phase = "evaluated"
    /\ ev.statement.type = "header:eq"
    /\ ev.statement.expected = << "apache" >>
    /\ ev.statement.case_sensitive = None
    /\ << "server" >> \in HeaderKeys
    /\ ev.record[1].headers[<< "server" >>] = << << "a" >>, << "Apache" >> >>
    /\ ev.evaluation[1].satisfied

\* ------------------------------------------- C16 evaluation degradations
\* The evaluation hit one of the degradations: a pattern that does not
\* compile, or a hash:eq statement against a truncated body.
Degraded ==
    /\ IsSome(out.evaluation)
    /\ \/ /\ parsed.statement[1].type = "regex"
          /\ ~RegexCompiles(parsed.statement[1].pattern)
       \/ /\ parsed.statement[1].type = "hash:eq"
          /\ out.record[1].response.body_truncated

\* C16: a degraded evaluation is satisfied=false with a detail and is not a
\* failure; after a successful capture a non-dry run goes on to build the
\* commitments and the artifact from the record and the statement alone and
\* to write it, whatever the evaluation said (only the file write can fail).
C16_DegradationsNonFatal ==
    /\ Degraded => /\ ~out.evaluation[1].satisfied
                   /\ IsSome(out.evaluation[1].details)
    /\ (pc = "evaluated" /\ ~cli.dry_run) => ENABLED BuildCommitments
    /\ (pc = "failed" /\ IsSome(out.record))
          => (out.err = << "failed to write" >> /\ IsSome(out.built))
    /\ IsSome(out.built)
          => out.built[1] =
               build_artifact(out.record[1], parsed.statement[1],
                              build_commitments(transcript(out.record[1]), cli.hash_alg, TRUE))
    /\ (pc = "done" /\ ~cli.dry_run)
          => (out.file.written = "complete" /\ out.file.artifact = out.built)

C16_Witness ==
    /\ pc = "done"
    /\ ~cli.dry_run
    /\ Degraded
    /\ parsed.statement[1].type = "hash:eq"
    /\ ~out.evaluation[1].satisfied
    /\ out.file.written = "complete"

\* ------------------------------------------------ C17 the recorded outcome
OutcomeFields == { "evaluation", "satisfied", "statement_satisfied" }

\* The evaluation outcome as the artifact records it, if it records one.
RecordedOutcome(a) ==
    IF \E f \in OutcomeFields : f \in DOMAIN a THEN Some("artifact")
    ELSE IF \E f \in OutcomeFields : f \in DOMAIN a.meta THEN Some("meta")
    ELSE IF \E f \in OutcomeFields : f \in DOMAIN a.meta.annotations THEN Some("annotations")
    ELSE None

\* C17 as stated: the artifact written after a successful capture carries
\* the satisfied/unsatisfied result of evaluating its statement.
C17_ArtifactCarriesOutcome ==
    (pc = "done" /\ out.file.written = "complete")
        => IsSome(RecordedOutcome(out.file.artifact[1]))

\* ------------------------------------------ C18 statement is not re-checked
\* C18: verify_artifact gives the same verdict, the same failure reason and
\* the same output for artifacts that differ only in their statement field,
\* also when the statement is false of the disclosed transcript.
C18_StatementIgnored ==
    vpc = "verified" =>
        \A st \in StatementSamples :
            LET other == verify_artifact([ artifact EXCEPT !.statement = st ])
            IN  /\ other.result = verdict
                /\ other.validation = validation
                /\ other.printed \o << IF IsOk(other.result) THEN "VALID" ELSE "INVALID" >>
                      = stdout

C18_Witness ==
    /\ vpc = "verified"
    /\ artifact.statement = [ type |-> "header:present", target |-> << "Server" >> ]
    /\ HasWitness
    /\ IsOk(verdict)
    /\ stdout = << "VALID" >>

\* ------------------------------------------------------ C21 regex modifiers
ScopeNames == { << "headers" >>, << "body" >>, << "any" >> }
ScopeOf(name) ==
    IF name = << "headers" >> THEN "Headers"
    ELSE IF name = << "body" >> THEN "Body" ELSE "Any"

\* The token has the shape of a modifier; bare says whether a scope name on
\* its own counts as one.
ModShape(t, bare) ==
    \/ t[1] \in { "scope=", "case_sensitive=" }
    \/ bare /\ Lower(t) \in ScopeNames

\* What a modifier token sets, or the error its value gives; words says which
\* spellings of a boolean are valid.
ModEffect(t, words) ==
    IF t[1] = "scope=" THEN
        IF Lower(Tail(t)) \in ScopeNames
        THEN [ ok |-> TRUE, sets |-> "scope", to |-> ScopeOf(Lower(Tail(t))) ]
        ELSE [ ok |-> FALSE, err |-> << "InvalidScope" >> ]
    ELSE IF t[1] = "case_sensitive=" THEN
        IF Lower(Tail(t)) \in words.yes
        THEN [ ok |-> TRUE, sets |-> "case", to |-> TRUE ]
        ELSE IF Lower(Tail(t)) \in words.no
        THEN [ ok |-> TRUE, sets |-> "case", to |-> FALSE ]
        ELSE [ ok |-> FALSE, err |-> << "InvalidBoolean" >> ]
    ELSE [ ok |-> TRUE, sets |-> "scope", to |-> ScopeOf(Lower(t)) ]

\* The result a regex expression with the given tokens is to have.
ExpectedRegex(toks, bare, words) ==
    LET n    == Len(toks)
        lead == CHOOSE k \in 0..(n - 1) :
                    /\ \A i \in 1..k : ModShape(toks[i], bare)
                    /\ k = n - 1 \/ ~ModShape(toks[k + 1], bare)
        bad  == { i \in 1..lead : ~ModEffect(toks[i], words).ok }
        last(what, default) ==
            LET set == { i \in 1..lead : ModEffect(toks[i], words).sets = what }
            IN  IF set = { } THEN default
                ELSE ModEffect(toks[CHOOSE i \in set : \A j \in set : j <= i], words).to
    IN  IF bad # { }
        THEN Err(ModEffect(toks[CHOOSE i \in bad : \A j \in bad : i <= j], words).err)
        ELSE IF lead # n - 1 THEN Err(<< "UnexpectedSegments" >>)
        ELSE Ok([ type |-> "regex", pattern |-> toks[n],
                  scope |-> last("scope", "Any"),
                  case_sensitive |-> last("case", FALSE) ])

RegexParsed == ev.phase = "parsed" /\ IsSome(ev.tokens) /\ Len(ev.tokens[1]) > 0

\* C21 as stated: the leading modifiers are the scope=<headers|body|any> and
\* case_sensitive=<true|false> tokens; the last token is the pattern; scope
\* defaults to Any and the case flag to false; an invalid value is a parse
\* error and any other token before the last is an unexpected segment.
C21_PrefixedModifiersOnly ==
    RegexParsed =>
        ev.result[1] = ExpectedRegex(ev.tokens[1], FALSE,
                                     [ yes |-> { << "true" >> }, no |-> { << "false" >> } ])

\* C21 (amended): as stated, except that a bare scope name (headers, body,
\* any) before the last token is a scope modifier too, and that the boolean
\* of case_sensitive= may be written true, 1, yes or false, 0, no.
C21_RegexModifiers ==
    RegexParsed =>
        ev.result[1] = ExpectedRegex(ev.tokens[1], TRUE,
                                     [ yes |-> { << "true" >>, << "1" >>, << "yes" >> },
                                       no  |-> { << "false" >>, << "0" >>, << "no" >> } ])

C21_Witness ==
    /\ RegexParsed
    /\ ev.tokens[1] = << << "case_sensitive=", "true" >>, << "scope=", "Headers" >>, << "h" >> >>
    /\ ev.result[1] = Ok([ type |-> "regex", pattern |-> << "h" >>, scope |-> "Headers",
                           case_sensitive |-> TRUE ])

\* ------------------------------------------------------ C22..C24 tokenizer
\* Where the reader stands after the first i characters of s: outside quotes,
\* inside quotes, or inside quotes just after an escape backslash.
RECURSIVE ModeAt(_, _)
ModeAt(s, i) ==
    IF i = 0 THEN "out"
    ELSE LET before == ModeAt(s, i - 1)
         IN  IF before = "esc" THEN "in"
             ELSE IF before = "in"
                  THEN IF s[i] = "\\" THEN "esc" ELSE IF s[i] = "\"" THEN "out" ELSE "in"
             ELSE IF s[i] = "\"" THEN "in" ELSE "out"

EndMode == ModeAt(Trim(ev.input), Len(Trim(ev.input)))

\* C22: an expression whose scan ends inside a quoted section is rejected with
\* the unbalanced-quotes error, whatever its kind and whatever surrounds the
\* quote.
C22_UnbalancedQuotes ==
    (ev.phase = "parsed" /\ EndMode # "out") =>
        ev.result[1] = Err(<< "UnbalancedQuotes" >>)

C22_Witness ==
    /\ ev.phase = "parsed"
    /\ ev.input = << "a", ":", "a", ":", "\"" >>
    /\ ev.result[1] = Err(<< "UnbalancedQuotes" >>)

\* C23: an expression that ends with an escape backslash inside quotes, with
\* no character left to escape, is rejected with the dangling-escape error.
C23_DanglingEscapeReported ==
    (ev.phase = "parsed" /\ EndMode = "esc") =>
        ev.result[1] = Err(<< "DanglingEscape" >>)

\* The separators of s: its colons outside quotes.
Separators(s) == { i \in 1..Len(s) : s[i] = ":" /\ ModeAt(s, i - 1) = "out" }

\* The characters of s that are field content: escaped ones, and the others
\* that are neither a quote, nor an escape backslash, nor a separator.
Literal(s, i) ==
    \/ ModeAt(s, i - 1) = "esc"
    \/ /\ s[i] # "\""
       /\ ~(s[i] = "\\" /\ ModeAt(s, i - 1) = "in")
       /\ i \notin Separators(s)

\* The content of s between positions lo and hi (both excluded).
RECURSIVE ContentBetween(_, _, _)
ContentBetween(s, lo, hi) ==
    IF lo + 1 >= hi THEN << >>
    ELSE (IF Literal(s, lo + 1) THEN << s[lo + 1] >> ELSE << >>)
         \o ContentBetween(s, lo + 1, hi)

\* The fields of s: the trimmed content before, between and after separators.
FieldsOf(s) ==
    LET cuts == Separators(s) \cup { 0, Len(s) + 1 }
        next(i) == CHOOSE j \in cuts : j > i /\ \A k \in cuts : k > i => j <= k
        F[i \in cuts] ==
            IF i = Len(s) + 1 THEN << >>
            ELSE << Trim(ContentBetween(s, i, next(i))) >> \o F[next(i)]
    IN  F[0]

\* C24: for an expression that is not blank and whose quotes are balanced, the
\* fields are the trimmed contents between the colons outside quotes, quotes
\* removed and escaped characters literal; the expression is rejected with the
\* empty-token error as soon as one field is empty, and tokenized to exactly
\* those fields otherwise.
C24_TokenizerFields ==
    (ev.phase = "parsed" /\ Len(Trim(ev.input)) > 0 /\ EndMode = "out") =>
        LET fields == FieldsOf(Trim(ev.input))
        IN  ev.fields[1] = IF \E i \in 1..Len(fields) : Len(fields[i]) = 0
                           THEN Err(<< "EmptyToken" >>)
                           ELSE Ok(fields)

C24_Witness ==
    /\ ev.phase = "parsed"
    /\ ev.input = << "a", ":", "\"", ":", "\"" >>
    /\ ev.fields[1] = Ok(<< << "a" >>, << ":" >> >>)

\* ------------------------------------------------------ C25 header list, map
\* The values, in order, of the entries of a list that bear the name n.
RECURSIVE ValuesOf(_, _)
ValuesOf(entries, n) ==
    IF Len(entries) = 0 THEN << >>
    ELSE (IF entries[1].name = n THEN << entries[1].value >> ELSE << >>)
         \o ValuesOf(Tail(entries), n)

\* The header lines as they came on the wire: name before the first colon,
\* value after it.
WireEntries ==
    [ k \in 1..Len(ev.lines) |->
        LET colon == CHOOSE i \in 1..Len(ev.lines[k]) :
                        ev.lines[k][i] = ":" /\ \A j \in 1..(i - 1) : ev.lines[k][j] # ":"
        IN  [ name  |-> SubSeq(ev.lines[k], 1, colon - 1),
              value |-> SubSeq(ev.lines[k], colon + 1, Len(ev.lines[k])) ] ]

WireNames == { Lower(Trim(WireEntries[k].name)) : k \in 1..Len(ev.lines) }

\* The trimmed values, in wire order, of the wire lines whose name is n once
\* lower-cased.
RECURSIVE WireValues(_, _)
WireValues(k, n) ==
    IF k > Len(ev.lines) THEN << >>
    ELSE (IF Lower(Trim(WireEntries[k].name)) = n
          THEN << Trim(WireEntries[k].value) >> ELSE << >>)
         \o WireValues(k + 1, n)

\* C25: after parse_http_response the header list is sorted by lower-cased
\* name with trimmed values; the keys of the header map are the names of the
\* list, and under each name the map and the list hold that name's values in
\* the order the lines came on the wire.
C25_ListAndMapAgree ==
    (ev.phase # "input" /\ IsSome(ev.record)) =>
        LET list == ev.record[1].response.headers
            map  == ev.record[1].headers
        IN  /\ Len(list) = Len(ev.lines)
            /\ \A i, j \in 1..Len(list) : i < j => ~StrLess(list[j].name, list[i].name)
            /\ \A i \in 1..Len(list) :
                  /\ list[i].name = Lower(list[i].name)
                  /\ list[i].value = Trim(list[i].value)
            /\ DOMAIN map = { list[i].name : i \in 1..Len(list) }
            /\ DOMAIN map = WireNames
            /\ \A n \in DOMAIN map :
                  /\ map[n] = WireValues(1, n)
                  /\ map[n] = ValuesOf(list, n)

C25_Witness ==
    /\ ev.phase = "parsed"
    /\ ev.lines = << << "server", ":", "a" >>, << "Server", ":", " ", "Apache" >> >>
    /\ ev.record[1].headers[<< "server" >>] = << << "a" >>, << "Apache" >> >>
    /\ ev.record[1].response.headers =
          << [ name |-> << "server" >>, value |-> << "a" >> ],
             [ name |-> << "server" >>, value |-> << "Apache" >> ] >>

\* ------------------------------------------------------ C26 context unbound
\* The artifacts that agree with a on what the claim lists: the blankness of
\* the domain, the emptiness of cert_fingerprints, the commitments (algorithm,
\* digests, witness) and whether the proof blob decodes.
ContextVariants(a) ==
    { [ a EXCEPT !.domain = d, !.tls = tls, !.version = env.version,
                 !.time_utc = env.time, !.meta.tool_version = env.tool, !.proof = pr ] :
        d   \in { x \in { << >>, << " " >>, << "a" >>, << "b" >> } :
                    (Len(Trim(x)) = 0) = (Len(Trim(a.domain)) = 0) },
        tls \in { t \in { [ a.tls EXCEPT !.cert_fingerprints = << >> ],
                          [ version |-> "TLS12",
                            cipher  |-> "TLS_ECDHE_RSA_WITH_AES_128_GCM_SHA256",
                            cert_fingerprints |-> << << "sha256", "c2" >> >>,
                            alpn    |-> Some(<< "h2" >>) ],
                          [ version |-> "TLS13", cipher |-> "TLS13_AES_128_GCM_SHA256",
                            cert_fingerprints |-> << << "sha256", "c1" >> >>,
                            alpn |-> None ] } :
                    (Len(t.cert_fingerprints) = 0) = (Len(a.tls.cert_fingerprints) = 0) },
        env \in { [ version |-> "2.0", time |-> 1, tool |-> "0.2.0" ],
                  [ version |-> "1.0", time |-> 0, tool |-> "0.1.0" ] },
        pr  \in { x \in { a.proof, from_bytes(<< 1 >>), << BadChar >> } :
                    IsBase64(x) = IsBase64(a.proof) } }

\* C26: verify_artifact gives the same result for any two artifacts that
\* agree on whether the domain is blank, whether cert_fingerprints is empty,
\* whether the blobs decode as base64, the algorithm, the two digests and the
\* witness, whatever their domain, TLS context, time, version and meta are;
\* the domain and TLS context are not compared with the disclosed witness.
C26_ContextNotBound ==
    vpc = "verified" =>
        \A v \in ContextVariants(artifact) : verify_artifact(v).result = verdict

C26_Witness ==
    /\ vpc = "verified"
    /\ artifact.domain = << "b" >>
    /\ artifact.tls.version = "TLS12"
    /\ IsSome(artifact.commitments.witness)
    /\ IsOk(verdict)

====
